---- MODULE Spec2Model ----
(***************************************************************************)
(* State-machine model of the NEST manager: the Kubernetes provisioning    *)
(* controller (controllers/provisioning.py), the external-operations       *)
(* controller (controllers/external_ops.py) and the workers: user sync     *)
(* (workers/user_sync.py), certificate rotation (workers/cert_rotation.py),*)
(* backup scheduling (workers/backup_scheduler.py) and statistics          *)
(* collection (workers/stats_collector.py).                                *)
(*                                                                         *)
(* Every handler is cut into steps at its calls into the cluster client,   *)
(* the connector and the database; pc names the step the request in        *)
(* flight is at.  Each such call may fail (an exception), which is an       *)
(* input drawn with \E.                                                    *)
(***************************************************************************)
EXTENDS Integers, Sequences, FiniteSets, TLC

VARIABLES
    resources,          \* db.resources: id -> row
    provisioning_jobs,  \* db.provisioning_jobs: the rows, in insertion order
    cluster,            \* the Kubernetes cluster: namespace -> objects in it
    pc,                 \* step of the provisioning request in flight
    op,                 \* locals of the provisioning request in flight
    resource_users,     \* db.resource_users: id -> row
    remote_users,       \* user ids present on the external resource
    upc,                \* step of the ExternalOps user-sync request in flight
    uop,                \* locals of the ExternalOps user-sync request in flight
    wpc,                \* step of the UserSyncWorker call in flight
    wop,                \* locals of the UserSyncWorker call in flight
    sync_calls,         \* user-sync requests and worker calls started so far
    sync_log,           \* what the connector calls made for each row have returned
    eop,                \* locals of the other ExternalOps request in flight
    backup_jobs,        \* db.backup_jobs: the rows, in insertion order
    resource_stats,     \* db.resource_stats: the rows, in insertion order
    audit_logs,         \* db.audit_logs: the rows, in insertion order
    certificates,       \* db.certificates: id -> row
    cpc,                \* step of the CertRotationWorker cycle in flight
    cop,                \* locals of the CertRotationWorker cycle in flight
    tls_secrets,        \* the <name>-tls Secret of each resource: the certificate in it
    schedule,           \* BackupScheduler.backup_jobs: resource id -> entry
    spc,                \* step of the BackupScheduler scan in flight
    sop,                \* locals of the BackupScheduler scan in flight
    clock,              \* the time of day the BackupScheduler loop is at, and its cleanups
    collector,          \* the StatsCollector: its flags and its threads
    worker,             \* the UserSyncWorker: its flags and the locals of its cycle
    risk,               \* a metrics map and the risk levels computed for it
    loops,              \* the run() loop of a worker: its step and its flags
    pki,                \* a certificate authority, its certificates, the requests on them
    now                 \* datetime.utcnow(), in days

vars == <<resources, provisioning_jobs, cluster, pc, op,
          resource_users, remote_users, upc, uop, wpc, wop, sync_calls, sync_log,
          eop, backup_jobs, resource_stats, audit_logs, certificates, cpc, cop,
          tls_secrets, schedule, spc, sop, clock, collector, worker, risk,
          loops, pki, now>>

provVars == <<resources, provisioning_jobs, cluster, pc, op>>
userVars == <<resource_users, remote_users, upc, uop, wpc, wop, sync_calls,
              sync_log>>
extVars == <<eop, backup_jobs, resource_stats, audit_logs>>
certVars == <<certificates, cpc, cop, tls_secrets>>
schedVars == <<schedule, spc, sop, clock>>
workerVars == <<certVars, schedVars, collector, worker, risk, loops, pki, now>>

-----------------------------------------------------------------------------
(* Bounds *)

NumResources == 1       \* resource rows in the store
MaxRequests == 2        \* provisioning requests a run may serve
MaxFailures == 1        \* calls into the database or the cluster that may fail in a run
MaxReplicas == 2        \* largest replica count a scale request asks for
NumUsers == 2           \* resource_users rows in the store
MaxSyncCalls == 2       \* ExternalOps requests and user-sync worker calls a run may start
MaxCollectorCalls == 4  \* start() and stop() calls made on the StatsCollector
NumCerts == 2           \* certificates rows in the store
MaxCycles == 2          \* rotation cycles the CertRotationWorker runs
MaxDay == 8             \* last day the clock of the BackupScheduler reaches
MaxRetryCount == 5      \* retry_count beyond which no further scan is followed
MaxMinute == 130        \* minute of the day after which no further pass is followed
MaxBatchSize == 2       \* the largest batch_size a UserSyncWorker is built with
MaxCertRequests == 2    \* requests each caller of the CertificateController makes

ResIds == 1..NumResources
UserIds == 1..NumUsers
CertIds == 1..NumCerts

NULL == "NULL"

-----------------------------------------------------------------------------
(* Store schema and static tables *)

\* resource_types.supports_full_lifecycle of the type of the given name.
supports_full_lifecycle(t) == t = "db-postgresql"

SUPPORTED_RESOURCE_TYPES == {"db-postgresql", "db-redis", "db-mariadb", "db-valkey"}

\* namespace = f"team-{team.id}"; each resource is owned by the team of its own number.
TeamOf(r) == r

NamespaceOf(r) == "team-" \o ToString(TeamOf(r))

Namespaces == {NamespaceOf(r) : r \in ResIds}

\* statefulset_manifest['metadata']['name'] of the rendered bundle.
StatefulSetNameOf(r) == "res-" \o ToString(r)

EmptyConfig == [k \in {} |-> 0]

\* The config dictionaries an update-config request may carry.
ConfigParams == {[max_connections |-> 200]}

\* {**existing_config, **config}
MergeConfig(existing, new) ==
    [k \in (DOMAIN existing) \cup (DOMAIN new) |->
        IF k \in DOMAIN new THEN new[k] ELSE existing[k]]

\* A row of db.resources as the API layer inserts it: status defaults to 'pending'.
NewResource(t, cs, cm) ==
    [resource_type     |-> t,
     status            |-> "pending",
     lifecycle_mode    |-> "full",
     k8s_namespace     |-> NULL,
     k8s_resource_name |-> NULL,
     k8s_resource_type |-> NULL,
     connection_info   |-> NULL,
     credentials       |-> NULL,
     config            |-> EmptyConfig,
     can_scale         |-> cs,
     can_modify_config |-> cm,
     can_modify_users  |-> FALSE,
     can_backup        |-> FALSE,
     deleted_at        |-> NULL]

\* A namespace that does not exist.
NoNamespace ==
    [phase |-> "absent", secret |-> FALSE, statefulset |-> FALSE,
     service |-> FALSE, replicas |-> 0, readyReplicas |-> 0]

\* A row of db.provisioning_jobs.
Job(r, t, s, e) ==
    [resource_id |-> r, job_type |-> t, status |-> s, error_message |-> e]

\* The locals of a request that has not started.
NoOp ==
    [seq |-> 0, failures |-> 0, kind |-> "none", resource_id |-> 0, replicas |-> 0, config |-> EmptyConfig,
     namespace |-> NULL, k8s_resource_name |-> NULL,
     service_manifest |-> FALSE, service_name |-> NULL,
     error |-> NULL, failed_at |-> NULL, result |-> "none", surfaced |-> NULL,
     delete_namespace_calls |-> 0, ns_wait |-> NULL, trace |-> <<>>,
     prior |-> NewResource("db-postgresql", FALSE, FALSE), jobs_before |-> 0,
     cluster_before |-> [ns \in Namespaces |-> NoNamespace],
     last |-> [kind |-> "none", resource_id |-> 0, replicas |-> 0,
               result |-> "none"],
     missing |-> FALSE, table_before |-> <<>>]

NewOp(k, r) ==
    [NoOp EXCEPT !.seq = op.seq + 1, !.failures = op.failures,
                 !.kind = k, !.resource_id = r,
                 !.prior = resources[r], !.jobs_before = Len(provisioning_jobs),
                 !.cluster_before = cluster,
                 !.last = [kind |-> op.kind, resource_id |-> op.resource_id,
                           replicas |-> op.replicas, result |-> op.result]]

Idle == pc \in {"idle", "done"}

\* The ids a request may name that db.resources has no row for.
MissingIds == (NumResources + 1)..(NumResources + 2)

\* The row db.resources.insert(status=s, updated_at=...) stores: every other
\* field at its default.
DefaultRow(s) ==
    [NewResource(NULL, FALSE, FALSE) EXCEPT !.status = s, !.lifecycle_mode = NULL]

\* db.resources.update_or_insert(db.resources.id == id, status=s, ...): the row
\* of that id is updated, and when there is none a new row is inserted, under
\* the next id of the table.
UpdateOrInsertStatus(rows, id, s) ==
    IF id \in DOMAIN rows
    THEN [rows EXCEPT ![id].status = s]
    ELSE LET new == Cardinality(DOMAIN rows) + 1
         IN  [i \in (DOMAIN rows) \cup {new} |->
                 IF i = new THEN DefaultRow(s) ELSE rows[i]]

\* `resource = db.resources[resource_id]; if not resource: raise ValueError(...)`
\* for an id without row: control passes to the except clause of the operation.
NotFound(kind, id, handler) ==
    /\ pc \in {"idle", "done"}
    /\ op.seq < MaxRequests
    /\ id \notin DOMAIN resources
    /\ op' = [NoOp EXCEPT !.seq = op.seq + 1, !.failures = op.failures,
                          !.kind = kind, !.resource_id = id,
                          !.jobs_before = Len(provisioning_jobs),
                          !.cluster_before = cluster,
                          !.last = [kind |-> op.kind, resource_id |-> op.resource_id,
                                    replicas |-> op.replicas, result |-> op.result],
                          !.missing = TRUE, !.table_before = resources,
                          !.error = "ValueError", !.failed_at = "load"]
    /\ pc' = handler
    /\ UNCHANGED <<resources, provisioning_jobs, cluster>>
    /\ UNCHANGED <<userVars, extVars, workerVars>>

\* The API layer serialises the requests; seq numbers them.
CanStart == Idle /\ op.seq < MaxRequests

\* An exception is raised at the current step: control passes to the except clause.
Raise(o, e, handler) ==
    /\ op' = [o EXCEPT !.error = e, !.failed_at = pc]
    /\ pc' = handler

\* The request returns to its caller.
Return(o) ==
    /\ op' = [o EXCEPT !.result = "returned"]
    /\ pc' = "done"

\* A bare `raise` at the end of an except clause re-raises the exception being handled.
Reraise(o) ==
    /\ op' = [o EXCEPT !.result = "raised", !.surfaced = o.error]
    /\ pc' = "done"

\* The outcomes of a call into the database (update_or_insert or insert, and its
\* commit) or into the cluster client: it succeeds or raises.
CallOutcomes(o) == IF o.failures < MaxFailures THEN BOOLEAN ELSE {TRUE}

\* The locals after a call with outcome ok.
AfterCall(o, ok) == IF ok THEN o ELSE [o EXCEPT !.failures = @ + 1]

Failed(o) == [o EXCEPT !.failures = @ + 1]

Effect(o, e) == [o EXCEPT !.trace = Append(o.trace, e)]

-----------------------------------------------------------------------------
(* ProvisioningController.provision_resource *)

\* The steps with the Service applied before the StatefulSet.
ProvisionOrderServiceFirst ==
    <<"create_namespace", "create_secret", "render_template",
      "create_service", "create_statefulset", "wait_ready",
      "connection_info", "resource_update", "job_insert">>

\* The program order of the steps of the try block.
ProvisionOrder ==
    <<"create_namespace", "create_secret", "render_template",
      "create_statefulset", "create_service", "wait_ready",
      "connection_info", "resource_update", "job_insert">>

IndexOf(seq, x) == CHOOSE i \in 1..Len(seq) : seq[i] = x

\* The step that follows step s; `if service_manifest:` skips create_service.
StepAfter(s, o) ==
    LET n == ProvisionOrder[IndexOf(ProvisionOrder, s) + 1]
    IN  IF n = "create_service" /\ ~o.service_manifest
        THEN ProvisionOrder[IndexOf(ProvisionOrder, n) + 1]
        ELSE n

\* Steps 1-2: load the resource, validate its type.
ProvisionStart(r) ==
    /\ CanStart
    /\ LET o == NewOp("provision", r)
           t == resources[r].resource_type
       IN  IF supports_full_lifecycle(t) /\ t \in SUPPORTED_RESOURCE_TYPES
           THEN /\ op' = o
                /\ pc' = ProvisionOrder[1]
           ELSE /\ op' = [o EXCEPT !.error = "ValueError", !.failed_at = "validate"]
                /\ pc' = "provision_except"
    /\ UNCHANGED <<resources, provisioning_jobs, cluster>>
    /\ UNCHANGED userVars
    /\ UNCHANGED <<extVars, workerVars>>

\* Step 3: k8s_client.create_namespace(namespace).
ProvisionCreateNamespace ==
    /\ pc = "create_namespace"
    /\ LET ns == NamespaceOf(op.resource_id)
           o  == [op EXCEPT !.namespace = ns]
       IN  \E ok \in CallOutcomes(op) :
             IF ok
             THEN /\ cluster' = [cluster EXCEPT ![ns].phase =
                                    IF @ = "absent" THEN "active" ELSE @]
                  /\ op' = Effect(o, "create_namespace")
                  /\ pc' = StepAfter(pc, o)
             ELSE /\ Raise(AfterCall(o, ok), "K8sException", "provision_except")
                  /\ UNCHANGED cluster
    /\ UNCHANGED <<resources, provisioning_jobs>>
    /\ UNCHANGED userVars
    /\ UNCHANGED <<extVars, workerVars>>

\* Steps 4-5: generate credentials, k8s_client.create_secret(...).
ProvisionCreateSecret ==
    /\ pc = "create_secret"
    /\ \E ok \in CallOutcomes(op) :
         IF ok /\ cluster[op.namespace].phase = "active"
         THEN /\ cluster' = [cluster EXCEPT ![op.namespace].secret = TRUE]
              /\ op' = Effect(op, "create_secret")
              /\ pc' = StepAfter(pc, op)
         ELSE /\ Raise(AfterCall(op, ok), "K8sException", "provision_except")
              /\ UNCHANGED cluster
    /\ UNCHANGED <<resources, provisioning_jobs>>
    /\ UNCHANGED userVars
    /\ UNCHANGED <<extVars, workerVars>>

\* Steps 6-7: render the template and split the bundle by kind.
ProvisionRender ==
    /\ pc = "render_template"
    /\ \E rendered \in BOOLEAN, hasStatefulSet \in BOOLEAN, hasService \in BOOLEAN :
         IF ~rendered
         THEN Raise(op, "TemplateError", "provision_except")
         ELSE IF ~hasStatefulSet
         THEN Raise(op, "ValueError", "provision_except")
         ELSE LET o == [op EXCEPT !.service_manifest = hasService,
                                  !.k8s_resource_name =
                                      StatefulSetNameOf(op.resource_id)]
              IN  /\ op' = o
                  /\ pc' = StepAfter(pc, o)
    /\ UNCHANGED <<resources, provisioning_jobs, cluster>>
    /\ UNCHANGED userVars
    /\ UNCHANGED <<extVars, workerVars>>

\* Step 8: k8s_client.create_statefulset(namespace, statefulset_manifest).
ProvisionCreateStatefulSet ==
    /\ pc = "create_statefulset"
    /\ \E ok \in CallOutcomes(op) :
         IF ok /\ cluster[op.namespace].phase = "active"
         THEN /\ cluster' = [cluster EXCEPT
                    ![op.namespace].statefulset = TRUE,
                    ![op.namespace].replicas = IF @ = 0 THEN 1 ELSE @]
              /\ op' = Effect(op, "create_statefulset")
              /\ pc' = StepAfter(pc, op)
         ELSE /\ Raise(AfterCall(op, ok), "K8sException", "provision_except")
              /\ UNCHANGED cluster
    /\ UNCHANGED <<resources, provisioning_jobs>>
    /\ UNCHANGED userVars
    /\ UNCHANGED <<extVars, workerVars>>

\* Step 9: k8s_client.create_service(namespace, service_manifest).
ProvisionCreateService ==
    /\ pc = "create_service"
    /\ \E ok \in CallOutcomes(op) :
         IF ok /\ cluster[op.namespace].phase = "active"
         THEN /\ cluster' = [cluster EXCEPT ![op.namespace].service = TRUE]
              /\ op' = Effect([op EXCEPT !.service_name = "service"], "create_service")
              /\ pc' = StepAfter(pc, op)
         ELSE /\ Raise(AfterCall([op EXCEPT !.service_name = "service"], ok),
                       "K8sException", "provision_except")
              /\ UNCHANGED cluster
    /\ UNCHANGED <<resources, provisioning_jobs>>
    /\ UNCHANGED userVars
    /\ UNCHANGED <<extVars, workerVars>>

\* The kubelet has started every pod the StatefulSet asks for.
PodsReady(c) == [c EXCEPT !.readyReplicas = c.replicas]

\* _wait_for_statefulset_ready: TRUE when the workload can be seen ready.
StatefulSetReady(c) ==
    c.statefulset /\ c.replicas > 0 /\ c.readyReplicas >= c.replicas

\* Step 10: poll the StatefulSet for up to 300 s; the pods either come up during
\* the wait or do not.
ProvisionWaitReady ==
    /\ pc = "wait_ready"
    /\ \E podsStart \in BOOLEAN :
         LET c == IF podsStart /\ cluster[op.namespace].statefulset
                       /\ cluster[op.namespace].phase = "active"
                  THEN PodsReady(cluster[op.namespace])
                  ELSE cluster[op.namespace]
             o == Effect(op, "wait_ready")
         IN  /\ cluster' = [cluster EXCEPT ![op.namespace] = c]
             /\ IF StatefulSetReady(c)
                THEN /\ op' = o
                     /\ pc' = StepAfter(pc, o)
                ELSE Raise(o, "RuntimeError", "provision_except")
    /\ UNCHANGED <<resources, provisioning_jobs>>
    /\ UNCHANGED userVars
    /\ UNCHANGED <<extVars, workerVars>>

\* Step 11: _get_service_endpoint(namespace, service_name); service_name is
\* assigned only inside `if service_manifest:`.
ProvisionConnectionInfo ==
    /\ pc = "connection_info"
    /\ IF op.service_name = NULL
       THEN Raise(op, "UnboundLocalError", "provision_except")
       ELSE /\ op' = op
            /\ pc' = StepAfter(pc, op)
    /\ UNCHANGED <<resources, provisioning_jobs, cluster>>
    /\ UNCHANGED userVars
    /\ UNCHANGED <<extVars, workerVars>>

\* EncryptionManager.encrypt and EncryptionManager.decrypt: a Fernet token of
\* the text, and the text of the token.
Encrypt(plain) == CASE plain = "plaintext" -> "ciphertext"

Decrypt(token) == CASE token = "ciphertext" -> "plaintext"

\* Step 12: the row written on success.
ProvisionedRow(row, o) ==
    [row EXCEPT !.status = "active",
                !.k8s_namespace = o.namespace,
                !.k8s_resource_name = o.k8s_resource_name,
                !.k8s_resource_type = "StatefulSet",
                !.connection_info = "endpoint",
                !.credentials = Encrypt("plaintext")]

ProvisionResourceUpdate ==
    /\ pc = "resource_update"
    /\ \E ok \in CallOutcomes(op) :
         IF ok
         THEN /\ resources' = [resources EXCEPT
                    ![op.resource_id] = ProvisionedRow(@, op)]
              /\ op' = Effect(op, "resource_update")
              /\ pc' = StepAfter(pc, op)
         ELSE /\ Raise(Failed(op), "StoreError", "provision_except")
              /\ UNCHANGED resources
    /\ UNCHANGED <<provisioning_jobs, cluster>>
    /\ UNCHANGED userVars
    /\ UNCHANGED <<extVars, workerVars>>

\* Step 13: insert the completed job, return.
ProvisionJobInsert ==
    /\ pc = "job_insert"
    /\ \E ok \in CallOutcomes(op) :
         IF ok
         THEN /\ provisioning_jobs' = Append(provisioning_jobs,
                    Job(op.resource_id, "provision", "completed", ""))
              /\ Return(Effect(op, "job_insert"))
         ELSE /\ Raise(Failed(op), "StoreError", "provision_except")
              /\ UNCHANGED provisioning_jobs
    /\ UNCHANGED <<resources, cluster>>
    /\ UNCHANGED userVars
    /\ UNCHANGED <<extVars, workerVars>>

\* except: update_or_insert(status='error'); its own failure is logged only.
ProvisionExcept ==
    /\ pc = "provision_except"
    /\ \E ok \in CallOutcomes(op) :
         IF ok
         THEN /\ resources' = UpdateOrInsertStatus(resources, op.resource_id, "error")
              /\ op' = Effect(op, "resource_update")
         ELSE /\ UNCHANGED resources
              /\ op' = Failed(op)
    /\ pc' = "provision_failed_job"
    /\ UNCHANGED <<provisioning_jobs, cluster>>
    /\ UNCHANGED userVars
    /\ UNCHANGED <<extVars, workerVars>>

\* except: insert the failed job; its own failure is logged only.
ProvisionFailedJob ==
    /\ pc = "provision_failed_job"
    /\ \E ok \in CallOutcomes(op) :
         IF ok
         THEN /\ provisioning_jobs' = Append(provisioning_jobs,
                    Job(op.resource_id, "provision", "failed",
                        "Provisioning failed"))
              /\ op' = Effect(op, "job_insert")
         ELSE /\ UNCHANGED provisioning_jobs
              /\ op' = Failed(op)
    /\ pc' = "provision_rollback"
    /\ UNCHANGED <<resources, cluster>>
    /\ UNCHANGED userVars
    /\ UNCHANGED <<extVars, workerVars>>

\* The namespace the except clause hands to _rollback_provisioning: the one
\* stored on the row it re-reads from the database.
RollbackNamespace(o) ==
    IF o.resource_id \in DOMAIN resources
    THEN resources[o.resource_id].k8s_namespace ELSE NULL

RollbackStatefulSet(o) ==
    IF o.resource_id \in DOMAIN resources
    THEN resources[o.resource_id].k8s_resource_name ELSE NULL

\* k8s_client.delete_namespace: deletion is asynchronous.
DeleteNamespace(c) ==
    IF c.phase = "active" THEN [c EXCEPT !.phase = "terminating"] ELSE c

\* except: _rollback_provisioning(resource.k8s_namespace, resource.k8s_resource_name),
\* then re-raise.  Failures of the two deletes are logged only.
ProvisionRollback ==
    /\ pc = "provision_rollback"
    /\ LET ns  == RollbackNamespace(op)
           sts == RollbackStatefulSet(op)
       IN  IF ns = NULL
           THEN /\ Reraise(op)
                /\ UNCHANGED cluster
           ELSE \E nsOk \in CallOutcomes(op) :
                \E stsOk \in CallOutcomes(AfterCall(op, nsOk)) :
                  LET o0 == [AfterCall(AfterCall(op, nsOk), stsOk \/ sts = NULL)
                                EXCEPT !.delete_namespace_calls = @ + 1]
                      nsDel == nsOk /\ cluster[ns].phase # "absent"
                      c1 == IF nsDel THEN DeleteNamespace(cluster[ns]) ELSE cluster[ns]
                      o1 == IF nsDel THEN Effect(o0, "delete_namespace") ELSE o0
                      stsDel == sts # NULL /\ stsOk /\ c1.statefulset
                      c2 == IF stsDel
                            THEN [c1 EXCEPT !.statefulset = FALSE,
                                            !.replicas = 0, !.readyReplicas = 0]
                            ELSE c1
                      o2 == IF stsDel THEN Effect(o1, "delete_statefulset") ELSE o1
                  IN  /\ cluster' = [cluster EXCEPT ![ns] = c2]
                      /\ Reraise(o2)
    /\ UNCHANGED <<resources, provisioning_jobs>>
    /\ UNCHANGED userVars
    /\ UNCHANGED <<extVars, workerVars>>

Provision ==
    \/ \E r \in ResIds : ProvisionStart(r)
    \/ ProvisionCreateNamespace
    \/ ProvisionCreateSecret
    \/ ProvisionRender
    \/ ProvisionCreateStatefulSet
    \/ ProvisionCreateService
    \/ ProvisionWaitReady
    \/ ProvisionConnectionInfo
    \/ ProvisionResourceUpdate
    \/ ProvisionJobInsert
    \/ ProvisionExcept
    \/ ProvisionFailedJob
    \/ ProvisionRollback

-----------------------------------------------------------------------------
(* ProvisioningController.deprovision_resource *)

\* Load the resource; it must have a namespace.
DeprovisionStart(r) ==
    /\ CanStart
    /\ LET o == [NewOp("deprovision", r) EXCEPT
                    !.namespace = resources[r].k8s_namespace]
       IN  IF resources[r].k8s_namespace = NULL
           THEN /\ op' = [o EXCEPT !.error = "ValueError", !.failed_at = "validate"]
                /\ pc' = "deprovision_except"
           ELSE /\ op' = o
                /\ pc' = "deprovision_delete_namespace"
    /\ UNCHANGED <<resources, provisioning_jobs, cluster>>
    /\ UNCHANGED userVars
    /\ UNCHANGED <<extVars, workerVars>>

\* k8s_client.delete_namespace(resource.k8s_namespace); fails when the cluster
\* rejects the call, for one because the namespace is not there.
DeprovisionDeleteNamespace ==
    /\ pc = "deprovision_delete_namespace"
    /\ \E ok \in CallOutcomes(op) :
         LET o == [op EXCEPT !.delete_namespace_calls = @ + 1]
         IN  IF ok /\ cluster[op.namespace].phase # "absent"
             THEN /\ cluster' = [cluster EXCEPT
                        ![op.namespace] = DeleteNamespace(@)]
                  /\ op' = Effect(o, "delete_namespace")
                  /\ pc' = "deprovision_wait"
             ELSE /\ Raise(AfterCall(o, ok), "K8sException", "deprovision_except")
                  /\ UNCHANGED cluster
    /\ UNCHANGED <<resources, provisioning_jobs>>
    /\ UNCHANGED userVars
    /\ UNCHANGED <<extVars, workerVars>>

\* _wait_for_namespace_deletion(namespace, timeout=60): TRUE once get_namespace
\* raises, FALSE when the namespace is still there after the timeout.
WaitForNamespaceDeletion(c) == c.phase = "absent"

\* What deprovision_resource does with the result of the wait: nothing, the
\* call is a bare statement and the next step runs either way.
DeprovisionProceeds(deleted) == TRUE

\* The namespace controller either finishes the deletion during the wait or not.
DeprovisionWait ==
    /\ pc = "deprovision_wait"
    /\ \E finalized \in BOOLEAN :
         LET c == IF finalized THEN NoNamespace ELSE cluster[op.namespace]
             deleted == WaitForNamespaceDeletion(c)
             o == Effect([op EXCEPT !.ns_wait = IF deleted THEN "deleted"
                                                ELSE "timeout"],
                         "wait_namespace_deletion")
         IN  /\ cluster' = [cluster EXCEPT ![op.namespace] = c]
             /\ IF DeprovisionProceeds(deleted)
                THEN /\ op' = o
                     /\ pc' = "deprovision_resource_update"
                ELSE Raise(o, "RuntimeError", "deprovision_except")
    /\ UNCHANGED <<resources, provisioning_jobs>>
    /\ UNCHANGED userVars
    /\ UNCHANGED <<extVars, workerVars>>

\* The row written by deprovision_resource.
DeprovisionedRow(row) ==
    [row EXCEPT !.status = "deleted",
                !.k8s_namespace = NULL,
                !.k8s_resource_name = NULL]

DeprovisionResourceUpdate ==
    /\ pc = "deprovision_resource_update"
    /\ \E ok \in CallOutcomes(op) :
         IF ok
         THEN /\ resources' = [resources EXCEPT
                    ![op.resource_id] = DeprovisionedRow(@)]
              /\ op' = Effect(op, "resource_update")
              /\ pc' = "deprovision_job_insert"
         ELSE /\ Raise(Failed(op), "StoreError", "deprovision_except")
              /\ UNCHANGED resources
    /\ UNCHANGED <<provisioning_jobs, cluster>>
    /\ UNCHANGED userVars
    /\ UNCHANGED <<extVars, workerVars>>

DeprovisionJobInsert ==
    /\ pc = "deprovision_job_insert"
    /\ \E ok \in CallOutcomes(op) :
         IF ok
         THEN /\ provisioning_jobs' = Append(provisioning_jobs,
                    Job(op.resource_id, "deprovision", "completed", ""))
              /\ Return(Effect(op, "job_insert"))
         ELSE /\ Raise(Failed(op), "StoreError", "deprovision_except")
              /\ UNCHANGED provisioning_jobs
    /\ UNCHANGED <<resources, cluster>>
    /\ UNCHANGED userVars
    /\ UNCHANGED <<extVars, workerVars>>

\* except: insert the failed job (its own failure is logged only), re-raise.
DeprovisionExcept ==
    /\ pc = "deprovision_except"
    /\ \E ok \in CallOutcomes(op) :
         IF ok
         THEN /\ provisioning_jobs' = Append(provisioning_jobs,
                    Job(op.resource_id, "deprovision", "failed",
                        "Deprovisioning failed"))
              /\ Reraise(Effect(op, "job_insert"))
         ELSE /\ UNCHANGED provisioning_jobs
              /\ Reraise(Failed(op))
    /\ UNCHANGED <<resources, cluster>>
    /\ UNCHANGED userVars
    /\ UNCHANGED <<extVars, workerVars>>

Deprovision ==
    \/ \E r \in ResIds : DeprovisionStart(r)
    \/ DeprovisionDeleteNamespace
    \/ DeprovisionWait
    \/ DeprovisionResourceUpdate
    \/ DeprovisionJobInsert
    \/ DeprovisionExcept

-----------------------------------------------------------------------------
(* ProvisioningController.scale_resource *)

\* `if replicas < 1: raise ValueError` stands before the try block: the request
\* is rejected and nothing is recorded.
ScaleRejected(r, n) ==
    /\ CanStart
    /\ n < 1
    /\ op' = [NewOp("scale", r) EXCEPT !.replicas = n, !.error = "ValueError",
                  !.failed_at = "validate", !.result = "raised",
                  !.surfaced = "ValueError"]
    /\ pc' = "done"
    /\ UNCHANGED <<resources, provisioning_jobs, cluster>>
    /\ UNCHANGED userVars
    /\ UNCHANGED <<extVars, workerVars>>

\* Load the resource; it must be bound to the cluster and have can_scale.
ScaleStart(r, n) ==
    /\ CanStart
    /\ n >= 1
    /\ LET row == resources[r]
           o == [NewOp("scale", r) EXCEPT !.replicas = n,
                    !.namespace = row.k8s_namespace,
                    !.k8s_resource_name = row.k8s_resource_name]
       IN  IF row.k8s_namespace = NULL \/ row.k8s_resource_name = NULL
              \/ ~row.can_scale
           THEN /\ op' = [o EXCEPT !.error = "ValueError", !.failed_at = "validate"]
                /\ pc' = "scale_except"
           ELSE /\ op' = o
                /\ pc' = "scale_statefulset"
    /\ UNCHANGED <<resources, provisioning_jobs, cluster>>
    /\ UNCHANGED userVars
    /\ UNCHANGED <<extVars, workerVars>>

\* k8s_client.scale_statefulset(namespace, name, replicas).
ScaleStatefulSet ==
    /\ pc = "scale_statefulset"
    /\ \E ok \in CallOutcomes(op) :
         IF ok /\ cluster[op.namespace].statefulset
               /\ cluster[op.namespace].phase = "active"
         THEN /\ cluster' = [cluster EXCEPT ![op.namespace].replicas = op.replicas,
                    ![op.namespace].readyReplicas =
                        IF @ > op.replicas THEN op.replicas ELSE @]
              /\ op' = Effect(op, "scale_statefulset")
              /\ pc' = "scale_wait"
         ELSE /\ Raise(AfterCall(op, ok), "K8sException", "scale_except")
              /\ UNCHANGED cluster
    /\ UNCHANGED <<resources, provisioning_jobs>>
    /\ UNCHANGED userVars
    /\ UNCHANGED <<extVars, workerVars>>

\* _wait_for_statefulset_replicas(namespace, name, replicas, timeout=300).
WaitForStatefulSetReplicas(c, n) == c.statefulset /\ c.readyReplicas >= n

\* What scale_resource does with the result of the wait: nothing.
ScaleProceeds(ready) == TRUE

\* The new pods either come up during the wait or do not.
ScaleWait ==
    /\ pc = "scale_wait"
    /\ \E podsStart \in BOOLEAN :
         LET c == IF podsStart /\ cluster[op.namespace].statefulset
                       /\ cluster[op.namespace].phase = "active"
                  THEN PodsReady(cluster[op.namespace])
                  ELSE cluster[op.namespace]
             ready == WaitForStatefulSetReplicas(c, op.replicas)
             o == Effect([op EXCEPT !.ns_wait = IF ready THEN "ready" ELSE "timeout"],
                         "wait_replicas")
         IN  /\ cluster' = [cluster EXCEPT ![op.namespace] = c]
             /\ IF ScaleProceeds(ready)
                THEN /\ op' = o
                     /\ pc' = "scale_resource_update"
                ELSE Raise(o, "RuntimeError", "scale_except")
    /\ UNCHANGED <<resources, provisioning_jobs>>
    /\ UNCHANGED userVars
    /\ UNCHANGED <<extVars, workerVars>>

\* A mutation of ScaledRow: the count written is one more than the one asked for.
ScaledRowOneMore(row, n) ==
    [row EXCEPT !.config = MergeConfig(@, [replicas |-> n + 1])]

\* config['replicas'] = replicas; the status is not written.
ScaledRow(row, n) ==
    [row EXCEPT !.config = MergeConfig(@, [replicas |-> n])]

ScaleResourceUpdate ==
    /\ pc = "scale_resource_update"
    /\ \E ok \in CallOutcomes(op) :
         IF ok
         THEN /\ resources' = [resources EXCEPT
                    ![op.resource_id] = ScaledRow(@, op.replicas)]
              /\ op' = Effect(op, "resource_update")
              /\ pc' = "scale_job_insert"
         ELSE /\ Raise(Failed(op), "StoreError", "scale_except")
              /\ UNCHANGED resources
    /\ UNCHANGED <<provisioning_jobs, cluster>>
    /\ UNCHANGED userVars
    /\ UNCHANGED <<extVars, workerVars>>

ScaleJobInsert ==
    /\ pc = "scale_job_insert"
    /\ \E ok \in CallOutcomes(op) :
         IF ok
         THEN /\ provisioning_jobs' = Append(provisioning_jobs,
                    Job(op.resource_id, "scale", "completed", ""))
              /\ Return(Effect(op, "job_insert"))
         ELSE /\ Raise(Failed(op), "StoreError", "scale_except")
              /\ UNCHANGED provisioning_jobs
    /\ UNCHANGED <<resources, cluster>>
    /\ UNCHANGED userVars
    /\ UNCHANGED <<extVars, workerVars>>

\* except: insert the failed job (its own failure is logged only), re-raise.
ScaleExcept ==
    /\ pc = "scale_except"
    /\ \E ok \in CallOutcomes(op) :
         IF ok
         THEN /\ provisioning_jobs' = Append(provisioning_jobs,
                    Job(op.resource_id, "scale", "failed",
                        "Scaling failed"))
              /\ Reraise(Effect(op, "job_insert"))
         ELSE /\ UNCHANGED provisioning_jobs
              /\ Reraise(Failed(op))
    /\ UNCHANGED <<resources, cluster>>
    /\ UNCHANGED userVars
    /\ UNCHANGED <<extVars, workerVars>>

Scale ==
    \/ \E r \in ResIds, n \in 0..MaxReplicas : ScaleRejected(r, n)
    \/ \E r \in ResIds, n \in 0..MaxReplicas : ScaleStart(r, n)
    \/ ScaleStatefulSet
    \/ ScaleWait
    \/ ScaleResourceUpdate
    \/ ScaleJobInsert
    \/ ScaleExcept

-----------------------------------------------------------------------------
(* ProvisioningController.update_resource_config *)

\* Load the resource; it must have can_modify_config.  Neither its status nor
\* its binding is looked at.
UpdateConfigStart(r, cfg) ==
    /\ CanStart
    /\ LET o == [NewOp("update_config", r) EXCEPT !.config = cfg]
       IN  IF ~resources[r].can_modify_config
           THEN /\ op' = [o EXCEPT !.error = "ValueError", !.failed_at = "validate"]
                /\ pc' = "update_config_except"
           ELSE /\ op' = o
                /\ pc' = "update_config_write"
    /\ UNCHANGED <<resources, provisioning_jobs, cluster>>
    /\ UNCHANGED userVars
    /\ UNCHANGED <<extVars, workerVars>>

\* update_or_insert(config=merged, status='updating'); commit.
UpdateConfigWrite ==
    /\ pc = "update_config_write"
    /\ \E ok \in CallOutcomes(op) :
         IF ok
         THEN /\ resources' = [resources EXCEPT
                    ![op.resource_id].config = MergeConfig(@, op.config),
                    ![op.resource_id].status = "updating"]
              /\ op' = Effect(op, "resource_update")
              /\ pc' = "update_config_job_insert"
         ELSE /\ Raise(Failed(op), "StoreError", "update_config_except")
              /\ UNCHANGED resources
    /\ UNCHANGED <<provisioning_jobs, cluster>>
    /\ UNCHANGED userVars
    /\ UNCHANGED <<extVars, workerVars>>

\* Insert the completed job; commit.
UpdateConfigJobInsert ==
    /\ pc = "update_config_job_insert"
    /\ \E ok \in CallOutcomes(op) :
         IF ok
         THEN /\ provisioning_jobs' = Append(provisioning_jobs,
                    Job(op.resource_id, "update_config", "completed", ""))
              /\ op' = Effect(op, "job_insert")
              /\ pc' = "update_config_activate"
         ELSE /\ Raise(Failed(op), "StoreError", "update_config_except")
              /\ UNCHANGED provisioning_jobs
    /\ UNCHANGED <<resources, cluster>>
    /\ UNCHANGED userVars
    /\ UNCHANGED <<extVars, workerVars>>

\* "Mark as active again": update_or_insert(status='active'); commit; return.
UpdateConfigActivate ==
    /\ pc = "update_config_activate"
    /\ \E ok \in CallOutcomes(op) :
         IF ok
         THEN /\ resources' = [resources EXCEPT ![op.resource_id].status = "active"]
              /\ Return(Effect(op, "resource_update"))
         ELSE /\ Raise(Failed(op), "StoreError", "update_config_except")
              /\ UNCHANGED resources
    /\ UNCHANGED <<provisioning_jobs, cluster>>
    /\ UNCHANGED userVars
    /\ UNCHANGED <<extVars, workerVars>>

\* except: status='error' and the failed job go into one transaction; when it
\* fails neither is stored.  Re-raise.
UpdateConfigExcept ==
    /\ pc = "update_config_except"
    /\ \E ok \in CallOutcomes(op) :
         IF ok
         THEN /\ resources' = UpdateOrInsertStatus(resources, op.resource_id, "error")
              /\ provisioning_jobs' = Append(provisioning_jobs,
                    Job(op.resource_id, "update_config", "failed",
                        "Configuration update failed"))
              /\ Reraise(Effect(Effect(op, "resource_update"), "job_insert"))
         ELSE /\ UNCHANGED <<resources, provisioning_jobs>>
              /\ Reraise(Failed(op))
    /\ UNCHANGED cluster
    /\ UNCHANGED userVars
    /\ UNCHANGED <<extVars, workerVars>>

UpdateConfig ==
    \/ \E r \in ResIds, cfg \in ConfigParams : UpdateConfigStart(r, cfg)
    \/ UpdateConfigWrite
    \/ UpdateConfigJobInsert
    \/ UpdateConfigActivate
    \/ UpdateConfigExcept

-----------------------------------------------------------------------------
(* The cluster on its own *)

\* The namespace controller finishes a requested deletion: the namespace and
\* everything in it are gone.
NamespaceFinalized(ns) ==
    /\ cluster[ns].phase = "terminating"
    /\ cluster' = [cluster EXCEPT ![ns] = NoNamespace]
    /\ UNCHANGED <<resources, provisioning_jobs, pc, op>>
    /\ UNCHANGED userVars
    /\ UNCHANGED <<extVars, workerVars>>

-----------------------------------------------------------------------------
(* db.resource_users and the connector *)

\* The resource a resource_users row belongs to.
ResourceOfUser(u) == ((u - 1) % NumResources) + 1

\* A row of db.resource_users as the API layer inserts it: sync_status
\* defaults to 'pending'.
NewResourceUser(r) ==
    [resource_id    |-> r,
     sync_status    |-> "pending",
     last_synced_at |-> NULL,
     sync_error     |-> NULL,
     created_at     |-> 0,
     deleted_at     |-> NULL]

\* An externally hosted resource as it is imported: active, with connection
\* info and credentials.
ExternalResource(t, mode, cu) ==
    [NewResource(t, FALSE, FALSE) EXCEPT
        !.status = "active", !.lifecycle_mode = mode, !.can_modify_users = cu,
        !.connection_info = "endpoint", !.credentials = "ciphertext"]

SUPPORTED_LIFECYCLE_MODES == {"partial", "monitor_only"}

\* The keys of ExternalOpsController.CONNECTOR_MAP.
CONNECTOR_MAP == {"db-postgresql", "db-mariadb", "db-redis", "storage-ceph", "storage-san"}

\* db(db.resource_users.resource_id == resource_id).select(), in id order.
RECURSIVE RowsUpTo(_, _)
RowsUpTo(r, n) ==
    IF n = 0 THEN <<>>
    ELSE IF resource_users[n].resource_id = r
         THEN Append(RowsUpTo(r, n - 1), n)
         ELSE RowsUpTo(r, n - 1)

SelectResourceUsers(r) == RowsUpTo(r, NumUsers)

\* The locals of an ExternalOps user-sync request that has not started.
NoSync ==
    [resource_id |-> 0, rows |-> <<>>, snapshot |-> <<>>, idx |-> 0,
     events |-> [u \in UserIds |-> <<>>], sync_errors |-> 0, synced_count |-> 0,
     result |-> "none"]

\* The locals of a UserSyncWorker call that has not started.
NoWork ==
    [kind |-> "none", user |-> 0, user_exists |-> FALSE, call |-> "none",
     credentials |-> NULL, events |-> <<>>, result |-> "none"]

\* No connector call made yet.  last_call is what the last call made on the
\* connector for each row did, by whichever caller; overlapped whether
\* update_resource_users and a cycle of the worker have been in flight together.
NoSyncLog == [last_call |-> [u \in UserIds |-> "none"], overlapped |-> FALSE]

\* The connector call made for row u has returned (TRUE) or raised (FALSE).
ConnectorReturned(u, ok) ==
    [sync_log EXCEPT !.last_call[u] = IF ok THEN "returned" ELSE "raised"]

UserEvent(o, u, e) == [o EXCEPT !.events[u] = Append(@, e)]

-----------------------------------------------------------------------------
(* ExternalOpsController.update_resource_users *)

\* Load and validate the resource, build the connector, select the rows.
SyncUsersStart(r) ==
    /\ upc \in {"idle", "done"}
    /\ sync_calls < MaxSyncCalls
    /\ sync_calls' = sync_calls + 1
    /\ LET row == resources[r]
           valid == /\ row.lifecycle_mode \in SUPPORTED_LIFECYCLE_MODES
                    /\ row.can_modify_users
                    /\ row.resource_type \in CONNECTOR_MAP
           rows == SelectResourceUsers(r)
           o == [NoSync EXCEPT !.resource_id = r]
       IN  IF ~valid
           THEN /\ uop' = [o EXCEPT !.result = "raised"]
                /\ upc' = "done"
           ELSE /\ uop' = [o EXCEPT !.rows = rows, !.idx = 1,
                              !.snapshot = [i \in 1..Len(rows) |->
                                              resource_users[rows[i]].sync_status]]
                /\ upc' = IF rows = <<>> THEN "sync_users_audit"
                          ELSE "sync_users_syncing"
    /\ UNCHANGED <<resource_users, remote_users, wpc, wop>>
    /\ UNCHANGED provVars
    /\ UNCHANGED <<extVars, workerVars>>
    /\ sync_log' = [sync_log EXCEPT !.overlapped = @ \/ worker.idx > 0
                                                  \/ wpc \notin {"idle", "done"}]

\* The row has been handled: on to the next one, or out of the loop.
SyncUsersNextRow(o) ==
    /\ uop' = [o EXCEPT !.idx = @ + 1]
    /\ upc' = IF o.idx < Len(o.rows) THEN "sync_users_syncing" ELSE "sync_users_audit"

\* db.resource_users[res_user.id] = dict(sync_status='syncing', ...)
SyncUsersMarkSyncing ==
    /\ upc = "sync_users_syncing"
    /\ LET u == uop.rows[uop.idx]
       IN  /\ resource_users' = [resource_users EXCEPT ![u].sync_status = "syncing"]
           /\ uop' = UserEvent(uop, u, "syncing")
    /\ upc' = "sync_users_connector"
    /\ UNCHANGED <<remote_users, wpc, wop>>
    /\ UNCHANGED provVars
    /\ UNCHANGED <<extVars, workerVars>>
    /\ UNCHANGED sync_calls
    /\ UNCHANGED sync_log

\* `if hasattr(connector, 'create_user') and res_user.sync_status == 'pending'`,
\* on the row as it was selected.
SyncUsersCallsConnector(selectedStatus) == selectedStatus = "pending"

\* connector.create_user(...) when the condition holds; nothing otherwise.
SyncUsersConnector ==
    /\ upc = "sync_users_connector"
    /\ LET u == uop.rows[uop.idx]
       IN  IF SyncUsersCallsConnector(uop.snapshot[uop.idx])
           THEN \E ok \in BOOLEAN :
                  IF ok
                  THEN /\ remote_users' = remote_users \cup {u}
                       /\ sync_log' = ConnectorReturned(u, TRUE)
                       /\ uop' = UserEvent(uop, u, "create_user")
                       /\ upc' = "sync_users_synced"
                  ELSE /\ UNCHANGED remote_users
                       /\ sync_log' = ConnectorReturned(u, FALSE)
                       /\ uop' = UserEvent(uop, u, "create_user_failed")
                       /\ upc' = "sync_users_error"
           ELSE /\ UNCHANGED <<remote_users, uop, sync_log>>
                /\ upc' = "sync_users_synced"
    /\ UNCHANGED <<resource_users, wpc, wop>>
    /\ UNCHANGED provVars
    /\ UNCHANGED <<extVars, workerVars>>
    /\ UNCHANGED sync_calls

\* "Mark as synced".
SyncUsersMarkSynced ==
    /\ upc = "sync_users_synced"
    /\ LET u == uop.rows[uop.idx]
       IN  /\ resource_users' = [resource_users EXCEPT
                 ![u].sync_status = "synced",
                 ![u].last_synced_at = "now",
                 ![u].sync_error = NULL]
           /\ SyncUsersNextRow([UserEvent(uop, u, "synced")
                                  EXCEPT !.synced_count = @ + 1])
    /\ UNCHANGED <<remote_users, wpc, wop>>
    /\ UNCHANGED provVars
    /\ UNCHANGED <<extVars, workerVars>>
    /\ UNCHANGED sync_calls
    /\ UNCHANGED sync_log

\* except Exception: "Mark as error".
SyncUsersMarkError ==
    /\ upc = "sync_users_error"
    /\ LET u == uop.rows[uop.idx]
       IN  /\ resource_users' = [resource_users EXCEPT
                 ![u].sync_status = "error",
                 ![u].sync_error = "create_user failed"]
           /\ SyncUsersNextRow([UserEvent(uop, u, "error")
                                  EXCEPT !.sync_errors = @ + 1])
    /\ UNCHANGED <<remote_users, wpc, wop>>
    /\ UNCHANGED provVars
    /\ UNCHANGED <<extVars, workerVars>>
    /\ UNCHANGED sync_calls
    /\ UNCHANGED sync_log

\* The audit entry, which _create_audit_log inserts or fails to insert without
\* raising, then `return len(sync_errors) == 0`.
SyncUsersReturn ==
    /\ upc = "sync_users_audit"
    /\ \E inserted \in BOOLEAN :
         audit_logs' = IF inserted
                       THEN Append(audit_logs,
                                   [resource_id |-> uop.resource_id,
                                    action |-> "sync_users", status |-> "completed"])
                       ELSE audit_logs
    /\ uop' = [uop EXCEPT !.result = IF uop.sync_errors = 0 THEN "true" ELSE "false"]
    /\ upc' = "done"
    /\ UNCHANGED <<resource_users, remote_users, wpc, wop>>
    /\ UNCHANGED provVars
    /\ UNCHANGED <<eop, backup_jobs, resource_stats, workerVars>>
    /\ UNCHANGED sync_calls
    /\ UNCHANGED sync_log

SyncUsers ==
    \/ \E r \in ResIds : SyncUsersStart(r)
    \/ SyncUsersMarkSyncing
    \/ SyncUsersConnector
    \/ SyncUsersMarkSynced
    \/ SyncUsersMarkError
    \/ SyncUsersReturn

-----------------------------------------------------------------------------
(* ExternalOpsController: the operations other than update_resource_users *)

\* backup_size_bytes of a row that has none.
NULL_SIZE == -1

\* A row of db.backup_jobs; statuses lists the values its status has had.
NewBackupJob(r, t, loc) ==
    [resource_id |-> r, job_type |-> t, status |-> "pending",
     backup_location |-> loc, backup_size_bytes |-> NULL_SIZE,
     error_message |-> NULL, statuses |-> <<"pending">>]

\* db.backup_jobs[job_id] = dict(status=..., ...)
SetJobStatus(job, st) ==
    [job EXCEPT !.status = st, !.statuses = Append(@, st)]

\* A row of db.audit_logs.
AuditEntry(r, action, st) == [resource_id |-> r, action |-> action, status |-> st]

\* db.audit_logs.insert(...) of _create_audit_log.
CreateAuditLog(entry) == Append(audit_logs, entry)

-----------------------------------------------------------------------------
(* The risk evaluators: ExternalOpsController._calculate_risk_level and
   StatsCollector.calculate_risk_level *)

\* The value of a key the metrics map does not have.
ABSENT == -1

\* 1 GiB, in bytes.
GIB == 1073741824

\* metrics['connections'] of a map without the key: no connection counted.
NoConnections == [active |-> 0, total |-> 0]

\* The empty metrics map.
NoMetrics ==
    [disk_usage_percent |-> ABSENT, memory_usage_percent |-> ABSENT,
     memory_percent |-> ABSENT, connections |-> NoConnections,
     temp_files |-> ABSENT, replication_lag_seconds |-> ABSENT,
     cpu_percent |-> ABSENT]

RiskLevels == {"low", "medium", "high", "critical"}

\* low < medium < high < critical
Severity(level) ==
    CASE level = "low" -> 0
      [] level = "medium" -> 1
      [] level = "high" -> 2
      [] level = "critical" -> 3

\* saturation = (active / total) * 100; saturation > 80
Saturated(c) == c.total > 0 /\ c.active * 100 > 80 * c.total

\* ExternalOpsController._calculate_risk_level: max_risk after each check, in
\* the order of the code.
CalculateRiskLevel(metrics) ==
    LET disk == IF metrics.disk_usage_percent # ABSENT
                   /\ metrics.disk_usage_percent > 95 THEN "critical"
                ELSE IF metrics.disk_usage_percent # ABSENT
                        /\ metrics.disk_usage_percent > 85 THEN "high"
                ELSE "low"
        memory == IF /\ metrics.memory_usage_percent # ABSENT
                     /\ metrics.memory_usage_percent > 90
                     /\ disk \notin {"critical", "high"}
                  THEN "high" ELSE disk
        conns == IF Saturated(metrics.connections) /\ memory = "low"
                 THEN "medium" ELSE memory
        temp == IF metrics.temp_files # ABSENT /\ metrics.temp_files > GIB
                   /\ conns = "low"
                THEN "medium" ELSE conns
        lag == IF /\ metrics.replication_lag_seconds # ABSENT
                  /\ metrics.replication_lag_seconds > 3600
                  /\ temp = "low"
               THEN "medium" ELSE temp
    IN  lag

\* StatsCollector.calculate_risk_level: risk_level after each check, in the
\* order of the code.
CollectorCalculateRiskLevel(metrics) ==
    LET disk == IF metrics.disk_usage_percent # ABSENT
                   /\ metrics.disk_usage_percent > 95 THEN "critical"
                ELSE IF metrics.disk_usage_percent # ABSENT
                        /\ metrics.disk_usage_percent > 85 THEN "high"
                ELSE "low"
        memory == IF metrics.memory_percent # ABSENT /\ metrics.memory_percent > 90
                  THEN IF disk # "critical" THEN "high" ELSE disk
                  ELSE IF metrics.memory_percent # ABSENT
                          /\ metrics.memory_percent > 85
                       THEN IF disk \notin {"critical", "high"} THEN "medium"
                            ELSE disk
                       ELSE disk
        conns == IF Saturated(metrics.connections)
                    /\ memory \notin {"critical", "high"}
                 THEN "medium" ELSE memory
        cpu == IF metrics.cpu_percent # ABSENT /\ metrics.cpu_percent > 85
                  /\ conns \notin {"critical", "high"}
               THEN "medium" ELSE conns
    IN  cpu

Workers == {"cert_rotation", "backup_scheduler", "user_sync"}

\* A worker as its constructor leaves it, run() handed to its thread or task and
\* not yet at its first statement.  CertRotationWorker.__init__ sets
\* is_running = False, BackupScheduler.__init__ sets running = False and
\* worker_task = None, UserSyncWorker.__init__ sets running = True.  task says
\* whether the owner has put the task of run() into worker_task.
Constructed(w, task) ==
    [kind |-> w, pc |-> "start", running |-> (w = "user_sync"), task |-> task,
     cancelled |-> FALSE, requested |-> FALSE, cycles |-> 0, late_cycles |-> 0,
     absorbed |-> FALSE]

\* No worker is looked at.
NoLoop == [Constructed("user_sync", FALSE) EXCEPT !.kind = "none", !.pc = "none"]

\* No level computed yet for the empty map.
NoRisk ==
    [metrics |-> NoMetrics, level |-> NULL, collector_level |-> NULL,
     prior |-> NoMetrics, prior_level |-> NULL, prior_collector_level |-> NULL]

\* The values each key of a metrics map is given.
DiskUsages == {ABSENT, 50, 90, 96}
MemoryUsages == {ABSENT, 50, 95}
MemoryPercents == {ABSENT, 50, 88, 95}
ConnectionCounts == {NoConnections, [active |-> 1, total |-> 10],
                     [active |-> 9, total |-> 10]}
TempFileSizes == {ABSENT, GIB + 1}
ReplicationLags == {ABSENT, 7200}
CpuPercents == {ABSENT, 90}

\* The caller evaluates the metrics map: ExternalOps with its evaluator, the
\* StatsCollector with its own.
EvaluateRisk ==
    /\ risk.level = NULL
    /\ risk' = [risk EXCEPT !.level = CalculateRiskLevel(risk.metrics)]
    /\ UNCHANGED <<provVars, userVars, extVars, certVars, schedVars, collector,
                   worker, now, loops, pki>>

CollectorEvaluateRisk ==
    /\ risk.collector_level = NULL
    /\ risk' = [risk EXCEPT
          !.collector_level = CollectorCalculateRiskLevel(risk.metrics)]
    /\ UNCHANGED <<provVars, userVars, extVars, certVars, schedVars, collector,
                   worker, now, loops, pki>>

\* The next metrics map differs from the evaluated one in one observation,
\* which was absent or is now larger.
Observed(metrics) ==
    /\ risk.level # NULL
    /\ risk.collector_level # NULL
    /\ risk' = [metrics |-> metrics, level |-> NULL, collector_level |-> NULL,
                prior |-> risk.metrics, prior_level |-> risk.level,
                prior_collector_level |-> risk.collector_level]
    /\ UNCHANGED <<provVars, userVars, extVars, certVars, schedVars, collector,
                   worker, now, loops, pki>>

Observe ==
    LET m == risk.metrics
    IN  \/ \E v \in DiskUsages :
             v > m.disk_usage_percent
                 /\ Observed([m EXCEPT !.disk_usage_percent = v])
        \/ \E v \in MemoryUsages :
             v > m.memory_usage_percent
                 /\ Observed([m EXCEPT !.memory_usage_percent = v])
        \/ \E v \in MemoryPercents :
             v > m.memory_percent /\ Observed([m EXCEPT !.memory_percent = v])
        \/ \E v \in ConnectionCounts :
             v.active > m.connections.active
                 /\ Observed([m EXCEPT !.connections = v])
        \/ \E v \in TempFileSizes :
             v > m.temp_files /\ Observed([m EXCEPT !.temp_files = v])
        \/ \E v \in ReplicationLags :
             v > m.replication_lag_seconds
                 /\ Observed([m EXCEPT !.replication_lag_seconds = v])
        \/ \E v \in CpuPercents :
             v > m.cpu_percent /\ Observed([m EXCEPT !.cpu_percent = v])

\* The locals of an ExternalOps request that has not started.
NoRequest ==
    [kind |-> "none", resource_id |-> 0, connector |-> FALSE, calls |-> <<>>,
     job_id |-> 0, config |-> EmptyConfig, backup_type |-> NULL,
     backup_location |-> NULL,
     backup_path |-> NULL, backup_size |-> NULL_SIZE,
     metrics |-> NoMetrics, risk_level |-> NULL,
     audit |-> AuditEntry(0, "none", "none"), audit_failed |-> FALSE,
     cert_id |-> 0, credentials |-> NULL,
     error |-> NULL, result |-> "none",
     row_before |-> NewResource("db-postgresql", FALSE, FALSE),
     jobs_before |-> 0, stats_before |-> 0, audit_before |-> 0]

\* _validate_lifecycle_mode(resource) raises; test_connection does not call it.
LifecycleRejected(row, kind) ==
    /\ kind # "test_connection"
    /\ row.lifecycle_mode \notin SUPPORTED_LIFECYCLE_MODES

\* The capability bit the operation checks raises; three operations check none.
CapabilityRejected(row, kind) ==
    \/ kind = "update_config" /\ ~row.can_modify_config
    \/ kind \in {"trigger_backup", "restore_backup"} /\ ~row.can_backup

\* _load_resource(resource_id) raises: the row is looked up by id and nothing
\* else about it is checked.
LoadRejected(row) == FALSE

\* test_connection has no connector method to call: "Initialize connector (which
\* tests connection)" is its connector operation.
ConnectionTest(kind) ==
    IF kind = "test_connection" THEN <<"test_connection">> ELSE <<>>

\* _initialize_connector: the credentials the connector class is called with are
\* resource.credentials, parsed with json.loads when they are a string; the
\* values of the parsed map are the stored ones.
InitializeConnector(row) == row.credentials

\* The request starts: load, validate, look up the connector class, build the
\* connector.  Any of these raises before the connector or the store is used.
BeginExternal(kind, r, next, o) ==
    /\ upc \in {"idle", "done"}
    /\ sync_calls < MaxSyncCalls
    /\ sync_calls' = sync_calls + 1
    /\ LET row == resources[r]
           o0 == [o EXCEPT !.kind = kind, !.resource_id = r, !.row_before = row,
                           !.jobs_before = Len(backup_jobs),
                           !.stats_before = Len(resource_stats),
                           !.audit_before = Len(audit_logs)]
       IN  IF LoadRejected(row) \/ LifecycleRejected(row, kind)
              \/ CapabilityRejected(row, kind)
           THEN /\ eop' = [o0 EXCEPT !.error = "InvalidResourceError",
                                     !.result = "raised"]
                /\ upc' = "done"
           ELSE IF row.resource_type \notin CONNECTOR_MAP
           THEN /\ eop' = [o0 EXCEPT !.error = "ConnectorError", !.result = "raised"]
                /\ upc' = "done"
           ELSE \E built \in BOOLEAN :
                  IF built
                  THEN /\ eop' = [o0 EXCEPT !.connector = TRUE,
                                            !.credentials = InitializeConnector(row),
                                            !.calls = ConnectionTest(kind)]
                       /\ upc' = next
                  ELSE /\ eop' = [o0 EXCEPT !.error = "ConnectorError",
                                            !.result = "raised"]
                       /\ upc' = "done"
    /\ UNCHANGED <<resource_users, remote_users, uop, wpc, wop>>
    /\ UNCHANGED <<provVars, workerVars>>
    /\ UNCHANGED sync_log

Called(o, method) == [o EXCEPT !.calls = Append(@, method)]

\* A connector method raised: the request raises.
ConnectorRaised(o, method) ==
    [Called(o, method \o "_failed") EXCEPT !.error = "ConnectorError",
                                           !.result = "raised"]

\* A mutation of AfterAuditLog: an audit entry that could not be written makes
\* the operation raise.
AfterAuditLogOrRaise(o) ==
    IF Len(audit_logs') > Len(audit_logs)
    THEN [o EXCEPT !.result = IF o.error = NULL THEN "returned" ELSE "raised"]
    ELSE [o EXCEPT !.error = "AuditError", !.result = "raised"]

\* What the operation does once _create_audit_log has returned: it raises the
\* ConnectorError of the connector call that failed, or returns.
AfterAuditLog(o) ==
    [o EXCEPT !.result = IF o.error = NULL THEN "returned" ELSE "raised"]

\* _create_audit_log(...): the entry is inserted, or the insert raises and the
\* helper logs the failure and returns None; then the operation returns or
\* raises what it was about to.
ExtCreateAuditLog ==
    /\ upc = "create_audit_log"
    /\ \E inserted \in BOOLEAN :
         /\ audit_logs' = IF inserted
                          THEN CreateAuditLog(eop.audit)
                          ELSE audit_logs
         /\ eop' = AfterAuditLog([eop EXCEPT !.audit_failed = ~inserted])
    /\ upc' = "done"
    /\ UNCHANGED <<backup_jobs, resource_stats>>
    /\ UNCHANGED <<provVars, workerVars>>
    /\ UNCHANGED <<resource_users, remote_users, uop, wpc, wop, sync_calls>>
    /\ UNCHANGED sync_log

\* update_resource_config: load, validate, build the connector.
ExtUpdateConfigStart(r, cfg) ==
    /\ BeginExternal("update_config", r, "ext_update_config_call",
                     [NoRequest EXCEPT !.config = cfg])
    /\ UNCHANGED <<backup_jobs, resource_stats, audit_logs>>

\* connector.update_config(config_params)
ExtUpdateConfigCall ==
    /\ upc = "ext_update_config_call"
    /\ \E ok \in BOOLEAN :
         IF ok
         THEN /\ eop' = Called(eop, "update_config")
              /\ upc' = "ext_update_config_write"
         ELSE /\ eop' = ConnectorRaised(eop, "update_config")
              /\ upc' = "done"
    /\ UNCHANGED <<backup_jobs, resource_stats, audit_logs>>
    /\ UNCHANGED <<provVars, workerVars>>
    /\ UNCHANGED <<resource_users, remote_users, uop, wpc, wop, sync_calls>>
    /\ UNCHANGED sync_log

\* Merge the parameters into resource.config, write the audit entry, return True.
ExtUpdateConfigWrite ==
    /\ upc = "ext_update_config_write"
    /\ resources' = [resources EXCEPT
          ![eop.resource_id].config = MergeConfig(@, eop.config)]
    /\ eop' = [eop EXCEPT !.audit = AuditEntry(eop.resource_id, "update_config", "completed")]
    /\ upc' = "create_audit_log"
    /\ UNCHANGED audit_logs
    /\ UNCHANGED <<backup_jobs, resource_stats>>
    /\ UNCHANGED <<provisioning_jobs, cluster, pc, op>>
    /\ UNCHANGED <<resource_users, remote_users, uop, wpc, wop, sync_calls>>
    /\ UNCHANGED workerVars
    /\ UNCHANGED sync_log

ExtUpdateConfig ==
    \/ \E r \in ResIds, cfg \in ConfigParams : ExtUpdateConfigStart(r, cfg)
    \/ ExtUpdateConfigCall
    \/ ExtUpdateConfigWrite

\* The backup types and the locations a request may name.
BackupTypes == {"full"}

BackupLocations == {NULL, "/backups/given"}

\* trigger_backup: load, validate, build the connector.
TriggerBackupStart(r, t, loc) ==
    /\ BeginExternal("trigger_backup", r, "trigger_backup_insert",
                     [NoRequest EXCEPT !.backup_location = loc, !.backup_type = t])
    /\ UNCHANGED <<backup_jobs, resource_stats, audit_logs>>

\* db.backup_jobs.insert(status='pending', ...)
TriggerBackupInsert ==
    /\ upc = "trigger_backup_insert"
    /\ backup_jobs' = Append(backup_jobs,
          NewBackupJob(eop.resource_id, eop.backup_type, eop.backup_location))
    /\ eop' = [eop EXCEPT !.job_id = Len(backup_jobs) + 1]
    /\ upc' = "trigger_backup_running"
    /\ UNCHANGED <<resource_stats, audit_logs>>
    /\ UNCHANGED <<provVars, workerVars>>
    /\ UNCHANGED <<resource_users, remote_users, uop, wpc, wop, sync_calls>>
    /\ UNCHANGED sync_log

\* db.backup_jobs[job_id] = dict(status='running', ...)
TriggerBackupRunning ==
    /\ upc = "trigger_backup_running"
    /\ backup_jobs' = [backup_jobs EXCEPT ![eop.job_id] = SetJobStatus(@, "running")]
    /\ upc' = "trigger_backup_call"
    /\ UNCHANGED <<eop, resource_stats, audit_logs>>
    /\ UNCHANGED <<provVars, workerVars>>
    /\ UNCHANGED <<resource_users, remote_users, uop, wpc, wop, sync_calls>>
    /\ UNCHANGED sync_log

\* The path connector.trigger_backup returns for the location it is given.
BackupPathFor(loc, r) == IF loc = NULL THEN "/backups/" \o ToString(r) ELSE loc

\* The sizes os.path.getsize may give for a file that is there.
FileSizes == {0, 1}

\* connector.trigger_backup(...), then the size of the file at the returned
\* path, 0 when no such file is on this host.
TriggerBackupCall ==
    /\ upc = "trigger_backup_call"
    /\ \E ok \in BOOLEAN, exists \in BOOLEAN, size \in FileSizes :
         IF ok
         THEN /\ eop' = [Called(eop, "trigger_backup") EXCEPT
                    !.backup_path = BackupPathFor(eop.backup_location, eop.resource_id),
                    !.backup_size = IF exists THEN size ELSE 0]
              /\ upc' = "trigger_backup_completed"
         ELSE /\ eop' = [Called(eop, "trigger_backup_failed") EXCEPT
                    !.error = "trigger_backup raised"]
              /\ upc' = "trigger_backup_failed"
    /\ UNCHANGED <<backup_jobs, resource_stats, audit_logs>>
    /\ UNCHANGED <<provVars, workerVars>>
    /\ UNCHANGED <<resource_users, remote_users, uop, wpc, wop, sync_calls>>
    /\ UNCHANGED sync_log

\* "Update job as completed", the audit entry, return job_id.
TriggerBackupCompleted ==
    /\ upc = "trigger_backup_completed"
    /\ backup_jobs' = [backup_jobs EXCEPT ![eop.job_id] =
          [SetJobStatus(@, "completed") EXCEPT
              !.backup_location = eop.backup_path,
              !.backup_size_bytes = eop.backup_size]]
    /\ eop' = [eop EXCEPT !.audit = AuditEntry(eop.resource_id, "trigger_backup", "completed")]
    /\ upc' = "create_audit_log"
    /\ UNCHANGED audit_logs
    /\ UNCHANGED resource_stats
    /\ UNCHANGED <<provVars, workerVars>>
    /\ UNCHANGED <<resource_users, remote_users, uop, wpc, wop, sync_calls>>
    /\ UNCHANGED sync_log

\* except Exception: "Update job as failed", the audit entry, raise ConnectorError.
TriggerBackupFailed ==
    /\ upc = "trigger_backup_failed"
    /\ backup_jobs' = [backup_jobs EXCEPT ![eop.job_id] =
          [SetJobStatus(@, "failed") EXCEPT !.error_message = eop.error]]
    /\ eop' = [eop EXCEPT !.error = "ConnectorError",
                           !.audit = AuditEntry(eop.resource_id, "trigger_backup", "failed")]
    /\ upc' = "create_audit_log"
    /\ UNCHANGED audit_logs
    /\ UNCHANGED resource_stats
    /\ UNCHANGED <<provVars, workerVars>>
    /\ UNCHANGED <<resource_users, remote_users, uop, wpc, wop, sync_calls>>
    /\ UNCHANGED sync_log

TriggerBackup ==
    \/ \E r \in ResIds, t \in BackupTypes, loc \in BackupLocations :
         TriggerBackupStart(r, t, loc)
    \/ TriggerBackupInsert
    \/ TriggerBackupRunning
    \/ TriggerBackupCall
    \/ TriggerBackupCompleted
    \/ TriggerBackupFailed

\* restore_backup: load, validate, build the connector.
RestoreBackupStart(r, loc) ==
    /\ BeginExternal("restore_backup", r, "restore_backup_insert",
                     [NoRequest EXCEPT !.backup_location = loc])
    /\ UNCHANGED <<backup_jobs, resource_stats, audit_logs>>

\* db.backup_jobs.insert(job_type='restore', status='pending', ...)
RestoreBackupInsert ==
    /\ upc = "restore_backup_insert"
    /\ backup_jobs' = Append(backup_jobs,
          NewBackupJob(eop.resource_id, "restore", eop.backup_location))
    /\ eop' = [eop EXCEPT !.job_id = Len(backup_jobs) + 1]
    /\ upc' = "restore_backup_running"
    /\ UNCHANGED <<resource_stats, audit_logs>>
    /\ UNCHANGED <<provVars, workerVars>>
    /\ UNCHANGED <<resource_users, remote_users, uop, wpc, wop, sync_calls>>
    /\ UNCHANGED sync_log

\* db.backup_jobs[job_id] = dict(status='running', ...)
RestoreBackupRunning ==
    /\ upc = "restore_backup_running"
    /\ backup_jobs' = [backup_jobs EXCEPT ![eop.job_id] = SetJobStatus(@, "running")]
    /\ upc' = "restore_backup_call"
    /\ UNCHANGED <<eop, resource_stats, audit_logs>>
    /\ UNCHANGED <<provVars, workerVars>>
    /\ UNCHANGED <<resource_users, remote_users, uop, wpc, wop, sync_calls>>
    /\ UNCHANGED sync_log

\* connector.restore_backup(backup_location=backup_location, ...)
RestoreBackupCall ==
    /\ upc = "restore_backup_call"
    /\ \E ok \in BOOLEAN :
         IF ok
         THEN /\ eop' = Called(eop, "restore_backup")
              /\ upc' = "restore_backup_completed"
         ELSE /\ eop' = [Called(eop, "restore_backup_failed") EXCEPT
                    !.error = "restore_backup raised"]
              /\ upc' = "restore_backup_failed"
    /\ UNCHANGED <<backup_jobs, resource_stats, audit_logs>>
    /\ UNCHANGED <<provVars, workerVars>>
    /\ UNCHANGED <<resource_users, remote_users, uop, wpc, wop, sync_calls>>
    /\ UNCHANGED sync_log

\* "Update job as completed": status and completed_at only.  The audit entry,
\* return job_id.
RestoreBackupCompleted ==
    /\ upc = "restore_backup_completed"
    /\ backup_jobs' = [backup_jobs EXCEPT ![eop.job_id] = SetJobStatus(@, "completed")]
    /\ eop' = [eop EXCEPT !.audit = AuditEntry(eop.resource_id, "restore_backup", "completed")]
    /\ upc' = "create_audit_log"
    /\ UNCHANGED audit_logs
    /\ UNCHANGED resource_stats
    /\ UNCHANGED <<provVars, workerVars>>
    /\ UNCHANGED <<resource_users, remote_users, uop, wpc, wop, sync_calls>>
    /\ UNCHANGED sync_log

\* The except clause without its "Update job as failed".
RestoreBackupFailedUnrecorded ==
    /\ upc = "restore_backup_failed"
    /\ eop' = [eop EXCEPT !.error = "ConnectorError",
                           !.audit = AuditEntry(eop.resource_id, "restore_backup", "failed")]
    /\ upc' = "create_audit_log"
    /\ UNCHANGED audit_logs
    /\ UNCHANGED <<backup_jobs, resource_stats>>
    /\ UNCHANGED <<provVars, workerVars>>
    /\ UNCHANGED <<resource_users, remote_users, uop, wpc, wop, sync_calls>>
    /\ UNCHANGED sync_log

\* except Exception: "Update job as failed", the audit entry, raise ConnectorError.
RestoreBackupFailed ==
    /\ upc = "restore_backup_failed"
    /\ backup_jobs' = [backup_jobs EXCEPT ![eop.job_id] =
          [SetJobStatus(@, "failed") EXCEPT !.error_message = eop.error]]
    /\ eop' = [eop EXCEPT !.error = "ConnectorError",
                           !.audit = AuditEntry(eop.resource_id, "restore_backup", "failed")]
    /\ upc' = "create_audit_log"
    /\ UNCHANGED audit_logs
    /\ UNCHANGED resource_stats
    /\ UNCHANGED <<provVars, workerVars>>
    /\ UNCHANGED <<resource_users, remote_users, uop, wpc, wop, sync_calls>>
    /\ UNCHANGED sync_log

RestoreBackup ==
    \/ \E r \in ResIds : RestoreBackupStart(r, "/backups/given")
    \/ RestoreBackupInsert
    \/ RestoreBackupRunning
    \/ RestoreBackupCall
    \/ RestoreBackupCompleted
    \/ RestoreBackupFailed

\* The metrics maps connector.collect_stats() returns.
ConnectorMetrics ==
    {[NoMetrics EXCEPT !.disk_usage_percent = 50],
     [NoMetrics EXCEPT !.connections = [active |-> 9, total |-> 10]],
     [NoMetrics EXCEPT !.disk_usage_percent = 90],
     [NoMetrics EXCEPT !.disk_usage_percent = 96, !.memory_usage_percent = 95]}

\* collect_resource_stats: load, validate the lifecycle mode, build the connector.
CollectStatsStart(r) ==
    /\ BeginExternal("collect_stats", r, "collect_stats_call", NoRequest)
    /\ UNCHANGED <<backup_jobs, resource_stats, audit_logs>>

\* connector.collect_stats(), then the risk level of the metrics it returns.
CollectStatsCall ==
    /\ upc = "collect_stats_call"
    /\ \E ok \in BOOLEAN, metrics \in ConnectorMetrics :
         IF ok
         THEN /\ eop' = [Called(eop, "collect_stats") EXCEPT
                           !.metrics = metrics,
                           !.risk_level = CalculateRiskLevel(metrics)]
              /\ upc' = "collect_stats_insert"
         ELSE /\ eop' = ConnectorRaised(eop, "collect_stats")
              /\ upc' = "done"
    /\ UNCHANGED <<backup_jobs, resource_stats, audit_logs>>
    /\ UNCHANGED <<provVars, workerVars>>
    /\ UNCHANGED <<resource_users, remote_users, uop, wpc, wop, sync_calls>>
    /\ UNCHANGED sync_log

\* A mutation of RiskNeedsAudit: every collection is audited.
AnyRiskNeedsAudit(level) == level \in RiskLevels

\* `if risk_level in ['high', 'critical']`
RiskNeedsAudit(level) == level \in {"high", "critical"}

\* db.resource_stats.insert(...); the audit entry `if risk_level in ['high',
\* 'critical']`; return.
CollectStatsInsert ==
    /\ upc = "collect_stats_insert"
    /\ resource_stats' = Append(resource_stats,
          [resource_id |-> eop.resource_id, risk_level |-> eop.risk_level])
    /\ IF RiskNeedsAudit(eop.risk_level)
       THEN /\ eop' = [eop EXCEPT !.audit = AuditEntry(eop.resource_id,
                                                        "collect_stats",
                                                        eop.risk_level)]
            /\ upc' = "create_audit_log"
       ELSE /\ eop' = [eop EXCEPT !.result = "returned"]
            /\ upc' = "done"
    /\ UNCHANGED audit_logs
    /\ UNCHANGED backup_jobs
    /\ UNCHANGED <<provVars, workerVars>>
    /\ UNCHANGED <<resource_users, remote_users, uop, wpc, wop, sync_calls>>
    /\ UNCHANGED sync_log

CollectStats ==
    \/ \E r \in ResIds : CollectStatsStart(r)
    \/ CollectStatsCall
    \/ CollectStatsInsert

\* test_connection: load the resource, build the connector, return True.
TestConnection(r) ==
    /\ BeginExternal("test_connection", r, "test_connection_return", NoRequest)
    /\ UNCHANGED <<backup_jobs, resource_stats, audit_logs>>

TestConnectionReturn ==
    /\ upc = "test_connection_return"
    /\ eop' = [eop EXCEPT !.result = "returned"]
    /\ upc' = "done"
    /\ UNCHANGED <<backup_jobs, resource_stats, audit_logs>>
    /\ UNCHANGED <<provVars, workerVars>>
    /\ UNCHANGED <<resource_users, remote_users, uop, wpc, wop, sync_calls>>
    /\ UNCHANGED sync_log

\* reload_configuration: load, validate the lifecycle mode, build the connector.
ReloadConfigurationStart(r) ==
    /\ BeginExternal("reload_configuration", r, "reload_configuration_call", NoRequest)
    /\ UNCHANGED <<backup_jobs, resource_stats, audit_logs>>

\* connector.reload_config() when the connector has it, the audit entry, return
\* True.
ReloadConfigurationCall ==
    /\ upc = "reload_configuration_call"
    /\ \E hasReload \in BOOLEAN, ok \in BOOLEAN :
         IF hasReload /\ ok
         THEN /\ eop' = [Called(eop, "reload_config") EXCEPT
                           !.audit = AuditEntry(eop.resource_id, "reload_config",
                                                "completed")]
              /\ upc' = "create_audit_log"
         ELSE /\ eop' = IF hasReload THEN ConnectorRaised(eop, "reload_config")
                        ELSE [eop EXCEPT !.error = "ConnectorError",
                                         !.result = "raised"]
              /\ upc' = "done"
    /\ UNCHANGED audit_logs
    /\ UNCHANGED <<backup_jobs, resource_stats>>
    /\ UNCHANGED <<provVars, workerVars>>
    /\ UNCHANGED <<resource_users, remote_users, uop, wpc, wop, sync_calls>>
    /\ UNCHANGED sync_log

ReloadConfiguration ==
    \/ \E r \in ResIds : ReloadConfigurationStart(r)
    \/ ReloadConfigurationCall

-----------------------------------------------------------------------------
(* UserSyncWorker.sync_user and UserSyncWorker.delete_user *)

\* The resource types UserSyncWorker._get_connector knows.
WORKER_CONNECTOR_TYPES ==
    {"db-postgresql", "db-mariadb", "db-redis", "db-valkey",
     "storage-ceph", "storage-san"}

\* _get_connector(...) returns a connector and not None.
HasConnector(row) ==
    /\ row.connection_info # NULL
    /\ row.credentials # NULL
    /\ row.resource_type \in WORKER_CONNECTOR_TYPES

\* The credentials _get_connector hands to the connector class: the ones it
\* was called with, resource.credentials.
GetConnector(row) == row.credentials

WorkerIdle == wpc \in {"idle", "done"}

WorkerEvent(o, e) == [o EXCEPT !.events = Append(@, e)]

\* Load the row, resource_user.update_record(sync_status='syncing').
SyncUserStart(u) ==
    /\ WorkerIdle
    /\ sync_calls < MaxSyncCalls
    /\ sync_calls' = sync_calls + 1
    /\ resource_users' = [resource_users EXCEPT ![u].sync_status = "syncing"]
    /\ wop' = WorkerEvent([NoWork EXCEPT !.kind = "sync_user", !.user = u], "syncing")
    /\ wpc' = "sync_user_connector"
    /\ UNCHANGED <<remote_users, upc, uop>>
    /\ UNCHANGED provVars
    /\ UNCHANGED <<extVars, workerVars>>
    /\ sync_log' = [sync_log EXCEPT !.overlapped = @ \/ upc \notin {"idle", "done"}]

\* Whether a call the worker makes on the connector for row u returns (TRUE)
\* or raises (FALSE).
ConnectorOutcomes(u) ==
    CASE worker.fate[u] = "fails" -> {FALSE}
      [] worker.fate[u] = "succeeds" -> {TRUE}
      [] OTHER -> BOOLEAN

\* Load the resource and its type, build the connector, connector.user_exists(...).
SyncUserConnector ==
    /\ wpc = "sync_user_connector"
    /\ LET row == resources[resource_users[wop.user].resource_id]
       IN  IF ~HasConnector(row)
           THEN /\ wop' = [wop EXCEPT !.result = "ValueError"]
                /\ wpc' = "sync_user_error"
                /\ UNCHANGED sync_log
           ELSE \E ok \in ConnectorOutcomes(wop.user) :
                  /\ sync_log' = ConnectorReturned(wop.user, ok)
                  /\ IF ok
                     THEN /\ wop' = [wop EXCEPT
                                 !.user_exists = wop.user \in remote_users,
                                 !.credentials = GetConnector(row)]
                          /\ wpc' = "sync_user_call"
                     ELSE /\ wop' = [wop EXCEPT !.result = "ConnectionError"]
                          /\ wpc' = "sync_user_error"
    /\ UNCHANGED <<resource_users, remote_users, upc, uop>>
    /\ UNCHANGED provVars
    /\ UNCHANGED <<extVars, workerVars>>
    /\ UNCHANGED sync_calls

\* A mutation of ConnectorCall: the user is created whether it exists or not.
ConnectorCallCreate(user_exists) == "create_user"

\* `if user_exists: connector.update_user(...) else: connector.create_user(...)`
ConnectorCall(user_exists) == IF user_exists THEN "update_user" ELSE "create_user"

\* connector.update_user(...) if user_exists else connector.create_user(...).
SyncUserCall ==
    /\ wpc = "sync_user_call"
    /\ LET call == ConnectorCall(wop.user_exists)
       IN  \E ok \in ConnectorOutcomes(wop.user) :
             /\ sync_log' = ConnectorReturned(wop.user, ok)
             /\ IF ok
                THEN /\ remote_users' = remote_users \cup {wop.user}
                     /\ wop' = WorkerEvent([wop EXCEPT !.call = call], call)
                     /\ wpc' = "sync_user_synced"
                ELSE /\ UNCHANGED remote_users
                     /\ wop' = WorkerEvent([wop EXCEPT !.call = call,
                                                       !.result = "ConnectionError"],
                                           call \o "_failed")
                     /\ wpc' = "sync_user_error"
    /\ UNCHANGED <<resource_users, upc, uop>>
    /\ UNCHANGED provVars
    /\ UNCHANGED <<extVars, workerVars>>
    /\ UNCHANGED sync_calls

\* "Mark as synced".
SyncUserMarkSynced ==
    /\ wpc = "sync_user_synced"
    /\ resource_users' = [resource_users EXCEPT
          ![wop.user].sync_status = "synced",
          ![wop.user].last_synced_at = "now",
          ![wop.user].sync_error = NULL]
    /\ wop' = WorkerEvent([wop EXCEPT !.result = "synced"], "synced")
    /\ wpc' = "done"
    /\ UNCHANGED <<remote_users, upc, uop>>
    /\ UNCHANGED provVars
    /\ UNCHANGED <<extVars, workerVars>>
    /\ UNCHANGED sync_calls
    /\ UNCHANGED sync_log

\* _handle_sync_error: sync_status='error', sync_error=user_message.
HandleSyncError ==
    /\ wpc = "sync_user_error"
    /\ resource_users' = [resource_users EXCEPT
          ![wop.user].sync_status = "error",
          ![wop.user].sync_error = IF wop.result = "ValueError"
                                    THEN "Invalid configuration - requires manual review"
                                    ELSE "Connection failed - will retry"]
    /\ wop' = WorkerEvent(wop, "error")
    /\ wpc' = "done"
    /\ UNCHANGED <<remote_users, upc, uop>>
    /\ UNCHANGED provVars
    /\ UNCHANGED <<extVars, workerVars>>
    /\ UNCHANGED sync_calls
    /\ UNCHANGED sync_log

\* delete_user: load the row, the resource and its type, build the connector,
\* connector.user_exists(...).  The row's sync_status is not looked at.
DeleteUserStart(u) ==
    /\ WorkerIdle
    /\ sync_calls < MaxSyncCalls
    /\ sync_calls' = sync_calls + 1
    /\ LET row == resources[resource_users[u].resource_id]
           o == [NoWork EXCEPT !.kind = "delete_user", !.user = u]
       IN  IF ~HasConnector(row)
           THEN /\ wop' = [o EXCEPT !.result = "raised"]
                /\ wpc' = "done"
           ELSE \E ok \in BOOLEAN :
                  IF ok
                  THEN /\ wop' = [o EXCEPT !.user_exists = u \in remote_users,
                                           !.credentials = GetConnector(row)]
                       /\ wpc' = "delete_user_call"
                  ELSE /\ wop' = [o EXCEPT !.result = "raised"]
                       /\ wpc' = "done"
    /\ UNCHANGED <<resource_users, remote_users, upc, uop>>
    /\ UNCHANGED provVars
    /\ UNCHANGED <<extVars, workerVars>>
    /\ UNCHANGED sync_log

\* connector.delete_user(...) if the user exists on the resource.
DeleteUserCall ==
    /\ wpc = "delete_user_call"
    /\ IF wop.user_exists
       THEN \E ok \in BOOLEAN :
              IF ok
              THEN /\ remote_users' = remote_users \ {wop.user}
                   /\ wop' = WorkerEvent([wop EXCEPT !.call = "delete_user"],
                                         "delete_user")
                   /\ wpc' = "delete_user_mark"
              ELSE /\ UNCHANGED remote_users
                   /\ wop' = [wop EXCEPT !.call = "delete_user", !.result = "raised"]
                   /\ wpc' = "done"
       ELSE /\ UNCHANGED <<remote_users, wop>>
            /\ wpc' = "delete_user_mark"
    /\ UNCHANGED <<resource_users, upc, uop>>
    /\ UNCHANGED provVars
    /\ UNCHANGED <<extVars, workerVars>>
    /\ UNCHANGED sync_calls
    /\ UNCHANGED sync_log

\* The row written by delete_user: "Mark as deleted (soft delete)".
DeletedUserRow(row) ==
    [row EXCEPT !.deleted_at = "now", !.sync_status = "synced"]

DeleteUserMark ==
    /\ wpc = "delete_user_mark"
    /\ resource_users' = [resource_users EXCEPT ![wop.user] = DeletedUserRow(@)]
    /\ wop' = WorkerEvent([wop EXCEPT !.result = "deleted"], "deleted")
    /\ wpc' = "done"
    /\ UNCHANGED <<remote_users, upc, uop>>
    /\ UNCHANGED provVars
    /\ UNCHANGED <<extVars, workerVars>>
    /\ UNCHANGED sync_calls
    /\ UNCHANGED sync_log

SyncUser ==
    \/ \E u \in UserIds : SyncUserStart(u)
    \/ SyncUserConnector
    \/ SyncUserCall
    \/ SyncUserMarkSynced
    \/ HandleSyncError

DeleteUser ==
    \/ \E u \in UserIds : DeleteUserStart(u)
    \/ DeleteUserCall
    \/ DeleteUserMark

-----------------------------------------------------------------------------
(* UserSyncWorker.run and UserSyncWorker.sync_pending_users *)

\* The worker as __init__ leaves it, with no cycle made yet.  pending_users,
\* idx and before are the locals of the cycle in flight or of the last one;
\* processed is what each call of sync_user in it did.
\* fate says of each row what the external system does with the calls made
\* for it: "fails" on every attempt, "succeeds" on every attempt, or "any".
NoWorker ==
    [running |-> TRUE, batch_size |-> 1, pending_users |-> <<>>, idx |-> 0,
     before |-> <<>>, processed |-> <<>>, cycles |-> 0,
     fate |-> [u \in UserIds |-> "any"]]

\* A mutation of Eligible: rows left in syncing are taken up again.
EligibleOrSyncing(row) == row.sync_status \in {"pending", "error", "syncing"}

\* (sync_status == 'pending') | (sync_status == 'error')
Eligible(row) == row.sync_status \in {"pending", "error"}

\* The first row of S under orderby=db.resource_users.created_at.
Earliest(rows, S) ==
    CHOOSE u \in S :
        \A v \in S : \/ rows[u].created_at < rows[v].created_at
                     \/ rows[u].created_at = rows[v].created_at /\ u <= v

RECURSIVE OrderByCreatedAt(_, _)
OrderByCreatedAt(rows, S) ==
    IF S = {} THEN <<>>
    ELSE LET u == Earliest(rows, S)
         IN  <<u>> \o OrderByCreatedAt(rows, S \ {u})

\* limitby=(0, n)
LimitBy(s, n) == SubSeq(s, 1, IF Len(s) < n THEN Len(s) ELSE n)

\* The select of sync_pending_users.
SelectPendingUsers(rows, n) ==
    LimitBy(OrderByCreatedAt(rows, {u \in DOMAIN rows : Eligible(rows[u])}), n)

CycleOver == worker.idx = 0

\* One pass of `while self.running`: sync_pending_users() makes its select.
\* With no row selected it returns at once.
SyncPendingUsers ==
    /\ worker.running
    /\ CycleOver
    /\ wpc \in {"idle", "done"}
    /\ worker.cycles < MaxCycles
    /\ sync_calls + worker.batch_size <= MaxSyncCalls
    /\ LET selected == SelectPendingUsers(resource_users, worker.batch_size)
       IN  worker' = [worker EXCEPT !.pending_users = selected,
                                    !.idx = IF selected = <<>> THEN 0 ELSE 1,
                                    !.before = resource_users,
                                    !.processed = <<>>,
                                    !.cycles = @ + 1]
    /\ wpc' = "idle"
    /\ UNCHANGED <<resource_users, remote_users, upc, uop, wop, sync_calls>>
    /\ UNCHANGED <<provVars, extVars, certVars, schedVars, collector, risk, now, loops, pki>>
    /\ sync_log' = [sync_log EXCEPT !.overlapped = @ \/ upc \notin {"idle", "done"}]

\* `for resource_user in pending_users`: self.sync_user(resource_user.id).
WorkerSyncUser ==
    /\ worker.idx \in 1..Len(worker.pending_users)
    /\ worker.running
    /\ wpc = "idle"
    /\ SyncUserStart(worker.pending_users[worker.idx])

\* `if not self.running: break`
WorkerBreak ==
    /\ worker.idx \in 1..Len(worker.pending_users)
    /\ ~worker.running
    /\ wpc = "idle"
    /\ worker' = [worker EXCEPT !.idx = 0]
    /\ UNCHANGED <<provVars, userVars, extVars, certVars, schedVars, collector, risk, now, loops, pki>>

\* sync_user has returned (it raises nothing): on to the next row, or out of
\* the loop after the last one.
WorkerNextUser ==
    /\ worker.idx \in 1..Len(worker.pending_users)
    /\ wpc = "done"
    /\ worker' = [worker EXCEPT
          !.processed = Append(@, [user |-> wop.user, events |-> wop.events,
                                   user_exists |-> wop.user_exists,
                                   result |-> wop.result]),
          !.idx = IF worker.idx < Len(worker.pending_users) THEN @ + 1 ELSE 0]
    /\ wpc' = "idle"
    /\ UNCHANGED <<resource_users, remote_users, upc, uop, wop, sync_calls>>
    /\ UNCHANGED <<provVars, extVars, certVars, schedVars, collector, risk, now, loops, pki>>
    /\ UNCHANGED sync_log

\* time.sleep(self.sleep_interval) of run(), after sync_pending_users has
\* returned.  The counts of cycles and of calls begin again with it, so that
\* a run of any length is followed.
WorkerSleep ==
    /\ worker.running
    /\ CycleOver
    /\ wpc \in {"idle", "done"}
    /\ worker.cycles > 0
    /\ worker' = [worker EXCEPT !.cycles = 0]
    /\ sync_calls' = 0
    /\ wpc' = "idle"
    /\ UNCHANGED <<resource_users, remote_users, upc, uop, wop>>
    /\ UNCHANGED <<provVars, extVars, certVars, schedVars, collector, risk, now, loops, pki>>
    /\ UNCHANGED sync_log

\* _handle_shutdown, on SIGTERM or SIGINT: self.running = False.
HandleShutdown ==
    /\ worker.running
    /\ worker' = [worker EXCEPT !.running = FALSE]
    /\ UNCHANGED <<provVars, userVars, extVars, certVars, schedVars, collector, risk, now, loops, pki>>

-----------------------------------------------------------------------------
(* CertRotationWorker: one rotation cycle *)

\* notification_threshold_days of CertRotationWorker.__init__
NOTIFICATION_THRESHOLD_DAYS == 7

\* validity_days the controller issues a certificate with.
VALIDITY_DAYS == 365

\* A row of db.certificates.  certificate and private_key are the number of the
\* issue the row holds; ca is whether db.certificate_authorities has the row
\* ca_id names; resource_id is 0 for a certificate bound to no resource.
CertificateRow(r, valid, threshold, auto, deleted, ca) ==
    [resource_id |-> r, ca |-> ca, certificate |-> 1, private_key |-> 1,
     valid_until |-> valid, renewal_threshold_days |-> threshold,
     auto_renew |-> auto, deleted_at |-> IF deleted THEN "2024-01-01" ELSE NULL]

\* The locals of a rotation cycle that has not started.  before is the table as
\* the cycle found it, expiring the ids check_expiring_certificates returned,
\* outcome what the cycle did with each certificate, notified the notify_admin
\* calls.
NoCycle ==
    [cycles |-> 0, expiring |-> <<>>, idx |-> 0, before |-> <<>>,
     issued |-> 0, issued_until |-> 0,
     outcome |-> [c \in CertIds |-> "none"],
     notified |-> [c \in CertIds |-> <<>>],
     aborted |-> FALSE, audit_before |-> 0]

\* (cert.valid_until - now).days
DaysUntilExpiry(row) == row.valid_until - now

\* The selection without the row's own renewal threshold.
IsExpiringWithin30Days(row) ==
    /\ row.deleted_at = NULL
    /\ row.valid_until <= now + 30

\* check_expiring_certificates keeps the row: not soft-deleted, valid for at
\* most 30 days more, and within its own renewal threshold.
IsExpiring(row) ==
    /\ row.deleted_at = NULL
    /\ row.valid_until <= now + 30
    /\ DaysUntilExpiry(row) <= row.renewal_threshold_days

\* The ids of the expiring rows, in id order.
RECURSIVE ExpiringUpTo(_)
ExpiringUpTo(n) ==
    IF n = 0 THEN <<>>
    ELSE IF IsExpiring(certificates[n]) THEN Append(ExpiringUpTo(n - 1), n)
         ELSE ExpiringUpTo(n - 1)

\* cert_info.k8s_namespace and cert_info.k8s_resource_name
ClusterBound(row) ==
    /\ row.resource_id # 0
    /\ resources[row.resource_id].k8s_namespace # NULL
    /\ resources[row.resource_id].k8s_resource_name # NULL

\* _create_audit_log(action=..., cert_id=..., resource_id=...)
CertAuditEntry(c, action) ==
    [resource_id |-> certificates[c].resource_id, action |-> action,
     status |-> "completed", cert_id |-> c]

\* The certificate the loop is at.
CurrentCert == cop.expiring[cop.idx]

\* The loop goes on to the next certificate; the cycle is over after the last.
CertNext(o) ==
    /\ cop' = [o EXCEPT !.idx = @ + 1, !.issued = 0, !.issued_until = 0]
    /\ cpc' = IF o.idx < Len(o.expiring) THEN "cert_next" ELSE "cycle_done"

\* except CertificateRenewalError in _rotation_cycle: notify_admin(...,
\* event_type="renewal_failed"), then the next certificate.
CertRenewalFailed(why) ==
    CertNext([cop EXCEPT !.outcome[CurrentCert] = why,
                         !.notified[CurrentCert] = Append(@, "renewal_failed")])

\* _rotation_cycle starts: check_expiring_certificates(), whose query may fail.
CycleStart ==
    /\ cpc \in {"idle", "cycle_done"}
    /\ cop.cycles < MaxCycles
    /\ \E ok \in BOOLEAN :
         LET o == [NoCycle EXCEPT !.cycles = cop.cycles + 1,
                                  !.before = certificates,
                                  !.audit_before = Len(audit_logs)]
         IN  IF ok
             THEN LET found == ExpiringUpTo(NumCerts)
                  IN  /\ cop' = [o EXCEPT !.expiring = found, !.idx = 1]
                      /\ cpc' = IF found = <<>> THEN "cycle_done" ELSE "cert_next"
             ELSE /\ cop' = [o EXCEPT !.aborted = TRUE]
                  /\ cpc' = "cycle_done"
    /\ UNCHANGED <<certificates, tls_secrets>>
    /\ UNCHANGED <<provVars, userVars, extVars, schedVars, collector, worker, risk, now, loops, pki>>

\* `if cert_info.auto_renew:` and its else branch: the expiry warning when the
\* certificate is within the notification threshold.
CycleBranch ==
    /\ cpc = "cert_next"
    /\ LET row == cop.before[CurrentCert]
       IN  IF row.auto_renew
           THEN /\ cpc' = "cert_load_old"
                /\ UNCHANGED cop
           ELSE IF DaysUntilExpiry(row) <= NOTIFICATION_THRESHOLD_DAYS
           THEN CertNext([cop EXCEPT
                   !.outcome[CurrentCert] = "warned",
                   !.notified[CurrentCert] = Append(@, "expiry_warning")])
           ELSE CertNext([cop EXCEPT !.outcome[CurrentCert] = "quiet"])
    /\ UNCHANGED <<certificates, tls_secrets>>
    /\ UNCHANGED <<provVars, userVars, extVars, schedVars, collector, worker, risk, now, loops, pki>>

\* What reading db.certificates[cert_id] may give.
RowReads == {"row", "none", "store_error"}

\* "Store old certificate for rollback": old_cert_db = db.certificates[cert_id];
\* old_cert_db.certificate.  This is before the try: when the row is gone or the
\* read fails, the exception is no CertificateRenewalError and leaves the loop
\* of _rotation_cycle.
CertLoadOld ==
    /\ cpc = "cert_load_old"
    /\ \E read \in RowReads :
         IF read = "row"
         THEN /\ cpc' = "cert_renew"
              /\ UNCHANGED cop
         ELSE /\ cop' = [cop EXCEPT !.outcome[CurrentCert] = "escaped",
                                    !.aborted = TRUE]
              /\ cpc' = "cycle_done"
    /\ UNCHANGED <<certificates, tls_secrets>>
    /\ UNCHANGED <<provVars, userVars, extVars, schedVars, collector, worker, risk, now, loops, pki>>

\* What ca_manager.renew_certificate may do.
IssueOutcomes == {"issued", "ca_error"}

\* Step 1, renew_certificate(cert_id): the row is gone, the CA row is gone, the
\* CA fails, or the CA issues a new certificate.  Every failure reaches the
\* cycle as CertificateRenewalError.
CertRenew ==
    /\ cpc = "cert_renew"
    /\ \E read \in RowReads, issue \in IssueOutcomes :
         IF read # "row"
         THEN CertRenewalFailed("no_certificate")
         ELSE IF ~certificates[CurrentCert].ca
         THEN CertRenewalFailed("no_ca")
         ELSE IF issue = "ca_error"
         THEN CertRenewalFailed("ca_error")
         ELSE /\ cop' = [cop EXCEPT
                    !.issued = certificates[CurrentCert].certificate + 1,
                    !.issued_until = now + VALIDITY_DAYS]
              /\ cpc' = "cert_secret"
    /\ UNCHANGED <<certificates, tls_secrets>>
    /\ UNCHANGED <<provVars, userVars, extVars, schedVars, collector, worker, risk, now, loops, pki>>

\* Step 2 failing with the database write and the audit entry made before it.
CertUpdateSecretFailsAfterWrite ==
    /\ cpc = "cert_secret"
    /\ ClusterBound(cop.before[CurrentCert])
    /\ certificates' = [certificates EXCEPT ![CurrentCert] =
          [@ EXCEPT !.certificate = cop.issued, !.private_key = cop.issued,
                    !.valid_until = cop.issued_until]]
    /\ audit_logs' = Append(audit_logs,
                            CertAuditEntry(CurrentCert, "certificate_renewed"))
    /\ CertRenewalFailed("k8s_error")
    /\ UNCHANGED tls_secrets
    /\ UNCHANGED <<eop, backup_jobs, resource_stats>>
    /\ UNCHANGED <<provVars, userVars, schedVars, collector, worker, risk, now, loops, pki>>

\* Step 2, update_k8s_secret for a cluster-bound certificate: K8sUpdateError
\* becomes CertificateRenewalError and the renewal stops here.
CertUpdateSecretFails ==
    /\ cpc = "cert_secret"
    /\ ClusterBound(cop.before[CurrentCert])
    /\ CertRenewalFailed("k8s_error")
    /\ UNCHANGED <<certificates, tls_secrets>>
    /\ UNCHANGED <<provVars, userVars, extVars, schedVars, collector, worker, risk, now, loops, pki>>

\* Step 2, update_k8s_secret applies the Secret; without a cluster binding there
\* is no step 2.  Step 3 reloads nothing.
CertUpdateSecret ==
    /\ cpc = "cert_secret"
    /\ LET row == cop.before[CurrentCert]
       IN  tls_secrets' = IF ClusterBound(row)
                          THEN [tls_secrets EXCEPT ![row.resource_id] = cop.issued]
                          ELSE tls_secrets
    /\ cpc' = "cert_write"
    /\ UNCHANGED <<certificates, cop>>
    /\ UNCHANGED <<provVars, userVars, extVars, schedVars, collector, worker, risk, now, loops, pki>>

\* Step 4, db.certificates[cert_id] = dict(certificate=..., private_key=...,
\* valid_until=...), whose failure becomes CertificateRenewalError.
CertWrite ==
    /\ cpc = "cert_write"
    /\ \E ok \in BOOLEAN :
         IF ok
         THEN /\ certificates' = [certificates EXCEPT ![CurrentCert] =
                    [@ EXCEPT !.certificate = cop.issued,
                              !.private_key = cop.issued,
                              !.valid_until = cop.issued_until]]
              /\ cpc' = "cert_audit"
              /\ UNCHANGED cop
         ELSE /\ CertRenewalFailed("store_error")
              /\ UNCHANGED certificates
    /\ UNCHANGED <<tls_secrets, audit_logs>>
    /\ UNCHANGED <<eop, backup_jobs, resource_stats>>
    /\ UNCHANGED <<provVars, userVars, schedVars, collector, worker, risk, now, loops, pki>>

\* Step 5, the certificate_renewed audit entry, which _create_audit_log inserts
\* or fails to insert without raising; step 6, the renewal_success
\* notification.
CertCreateAuditLog ==
    /\ cpc = "cert_audit"
    /\ \E inserted \in BOOLEAN :
         audit_logs' = IF inserted
                       THEN Append(audit_logs,
                                   CertAuditEntry(CurrentCert, "certificate_renewed"))
                       ELSE audit_logs
    /\ CertNext([cop EXCEPT
          !.outcome[CurrentCert] = "renewed",
          !.notified[CurrentCert] = Append(@, "renewal_success")])
    /\ UNCHANGED <<certificates, tls_secrets>>
    /\ UNCHANGED <<eop, backup_jobs, resource_stats>>
    /\ UNCHANGED <<provVars, userVars, schedVars, collector, worker, risk, now, loops, pki>>

NextCerts ==
    \/ CycleStart
    \/ CycleBranch
    \/ CertLoadOld
    \/ CertRenew
    \/ CertUpdateSecretFails
    \/ CertUpdateSecret
    \/ CertWrite
    \/ CertCreateAuditLog

-----------------------------------------------------------------------------
(* CertificateController.revoke_certificate *)

\* Load the certificate, which must exist and not be soft-deleted, and check
\* the caller's access to the team of its resource.
RevokeCertificateStart(c) ==
    /\ upc \in {"idle", "done"}
    /\ sync_calls < MaxSyncCalls
    /\ sync_calls' = sync_calls + 1
    /\ LET o == [NoRequest EXCEPT !.kind = "revoke_certificate", !.cert_id = c,
                                  !.audit_before = Len(audit_logs)]
       IN  IF certificates[c].deleted_at # NULL
           THEN /\ eop' = [o EXCEPT !.error = "CertificateNotFound",
                                    !.result = "raised"]
                /\ upc' = "done"
           ELSE \E allowed \in BOOLEAN :
                  IF allowed
                  THEN /\ eop' = o
                       /\ upc' = "revoke_certificate_write"
                  ELSE /\ eop' = [o EXCEPT !.error = "CertificateAccessDenied",
                                           !.result = "raised"]
                       /\ upc' = "done"
    /\ UNCHANGED <<backup_jobs, resource_stats, audit_logs>>
    /\ UNCHANGED <<resource_users, remote_users, uop, wpc, wop>>
    /\ UNCHANGED <<provVars, workerVars>>
    /\ UNCHANGED sync_log

\* "Soft delete certificate" and commit; a failure of the store is raised again.
RevokeCertificateWrite ==
    /\ upc = "revoke_certificate_write"
    /\ \E ok \in BOOLEAN :
         IF ok
         THEN /\ certificates' = [certificates EXCEPT ![eop.cert_id].deleted_at = "now"]
              /\ eop' = eop
              /\ upc' = "revoke_certificate_audit"
         ELSE /\ UNCHANGED certificates
              /\ eop' = [eop EXCEPT !.error = "Exception", !.result = "raised"]
              /\ upc' = "done"
    /\ UNCHANGED <<backup_jobs, resource_stats, audit_logs>>
    /\ UNCHANGED <<resource_users, remote_users, uop, wpc, wop, sync_calls>>
    /\ UNCHANGED <<provVars, cpc, cop, tls_secrets, schedVars, collector, worker,
                   risk, now, loops, pki>>
    /\ UNCHANGED sync_log

\* The certificate_revoked audit entry, which _create_audit_log inserts or
\* fails to insert without raising; then revoke_certificate returns.
RevokeCertificateAudit ==
    /\ upc = "revoke_certificate_audit"
    /\ \E inserted \in BOOLEAN :
         audit_logs' = IF inserted
                       THEN Append(audit_logs,
                                   CertAuditEntry(eop.cert_id, "certificate_revoked"))
                       ELSE audit_logs
    /\ eop' = AfterAuditLog(eop)
    /\ upc' = "done"
    /\ UNCHANGED <<backup_jobs, resource_stats>>
    /\ UNCHANGED <<resource_users, remote_users, uop, wpc, wop, sync_calls>>
    /\ UNCHANGED <<provVars, workerVars>>
    /\ UNCHANGED sync_log

RevokeCertificate ==
    \/ \E c \in CertIds : RevokeCertificateStart(c)
    \/ RevokeCertificateWrite
    \/ RevokeCertificateAudit

-----------------------------------------------------------------------------
(* CertificateController.delete_ca, generate_certificate and renew_certificate, *)
(* called by two threads of the API on one certificate authority               *)

\* A row of db.certificates that names the certificate authority.
IssuedRow(deleted) == [ca_id |-> 1, deleted |-> deleted]

\* The certificate authority not soft-deleted, no certificate of it, no request
\* in flight.  dpc is the step of the delete_ca request, gpc the step of the
\* generate_certificate or renew_certificate request, old the row a renewal
\* replaces.
NoPki ==
    [ca_deleted |-> FALSE, certs |-> <<>>,
     dpc |-> "idle", deletes |-> 0, dresult |-> "none",
     gpc |-> "idle", issues |-> 0, gkind |-> "none", old |-> 0, gresult |-> "none",
     overlapped |-> FALSE]

\* The certificates of the authority that are not soft-deleted.
Dependents(p) == {i \in 1..Len(p.certs) : ~p.certs[i].deleted}

\* _create_audit_log of the CertificateController: inserted, or not and logged.
PkiAudit(action) ==
    \E inserted \in BOOLEAN :
        audit_logs' = IF inserted
                      THEN Append(audit_logs, [resource_id |-> 1, action |-> action,
                                               status |-> "completed", cert_id |-> NULL])
                      ELSE audit_logs

PkiFrame ==
    /\ UNCHANGED <<eop, backup_jobs, resource_stats>>
    /\ UNCHANGED <<provVars, userVars, certVars, schedVars, collector, worker,
                   risk, loops, now>>

\* delete_ca: _check_ca_access, then load the CA, which must exist and not be
\* soft-deleted.
DeleteCaStart ==
    /\ pki.dpc \in {"idle", "done"}
    /\ pki.deletes < MaxCertRequests
    /\ \E admin \in BOOLEAN :
         LET p == [pki EXCEPT !.deletes = @ + 1,
                              !.overlapped = @ \/ pki.gpc \notin {"idle", "done"}]
         IN  pki' = IF ~admin
                    THEN [p EXCEPT !.dpc = "done",
                                   !.dresult = "CertificateAccessDenied"]
                    ELSE IF pki.ca_deleted
                    THEN [p EXCEPT !.dpc = "done", !.dresult = "CertificateNotFound"]
                    ELSE [p EXCEPT !.dpc = "count", !.dresult = "none"]
    /\ UNCHANGED audit_logs
    /\ PkiFrame

\* "Check for dependent certificates": the count of the rows that name the CA
\* and are not soft-deleted; ValueError when there is one.
DeleteCaCount ==
    /\ pki.dpc = "count"
    /\ pki' = IF Dependents(pki) # {}
              THEN [pki EXCEPT !.dpc = "done", !.dresult = "ValueError"]
              ELSE [pki EXCEPT !.dpc = "write"]
    /\ UNCHANGED audit_logs
    /\ PkiFrame

\* ca.update_record(deleted_at=datetime.now()), commit, the ca_deleted audit
\* entry, return.
DeleteCaWrite ==
    /\ pki.dpc = "write"
    /\ pki' = [pki EXCEPT !.ca_deleted = TRUE, !.dpc = "done",
                          !.dresult = "returned"]
    /\ PkiAudit("ca_deleted")
    /\ PkiFrame

\* generate_certificate: load the resource, check the access, load the CA,
\* which must exist and not be soft-deleted.
LoadCa(p, allowed) ==
    IF ~allowed
    THEN [p EXCEPT !.gpc = "done", !.gresult = "CertificateAccessDenied"]
    ELSE IF p.ca_deleted
    THEN [p EXCEPT !.gpc = "done", !.gresult = "CertificateNotFound"]
    ELSE [p EXCEPT !.gpc = "insert", !.gresult = "none"]

GenerateCertificateStart ==
    /\ pki.gpc \in {"idle", "done"}
    /\ pki.issues < MaxCertRequests
    /\ \E allowed \in BOOLEAN :
         pki' = LoadCa([pki EXCEPT !.issues = @ + 1, !.gkind = "generate",
                           !.old = 0,
                           !.overlapped = @ \/ pki.dpc \notin {"idle", "done"}],
                       allowed)
    /\ UNCHANGED audit_logs
    /\ PkiFrame

\* renew_certificate: load the certificate, which must exist and not be
\* soft-deleted, check the access, call generate_certificate with its ca_id.
RenewCertificateStart(c) ==
    /\ pki.gpc \in {"idle", "done"}
    /\ pki.issues < MaxCertRequests
    /\ c \in 1..Len(pki.certs)
    /\ \E allowed \in BOOLEAN :
         LET p == [pki EXCEPT !.issues = @ + 1, !.gkind = "renew", !.old = c,
                              !.overlapped = @ \/ pki.dpc \notin {"idle", "done"}]
         IN  pki' = IF pki.certs[c].deleted
                    THEN [p EXCEPT !.gpc = "done", !.gresult = "CertificateNotFound"]
                    ELSE LoadCa(p, allowed)
    /\ UNCHANGED audit_logs
    /\ PkiFrame

\* ca_manager.generate_certificate(...), which may raise; db.certificates.insert
\* of the new row, commit, the certificate_generated audit entry.
GenerateCertificateInsert ==
    /\ pki.gpc = "insert"
    /\ \E issued \in BOOLEAN :
         IF issued
         THEN /\ pki' = [pki EXCEPT
                   !.certs = Append(@, IssuedRow(FALSE)),
                   !.gpc = IF pki.gkind = "renew" THEN "retire" ELSE "done",
                   !.gresult = IF pki.gkind = "renew" THEN "none" ELSE "returned"]
              /\ PkiAudit("certificate_generated")
         ELSE /\ pki' = [pki EXCEPT !.gpc = "done", !.gresult = "Exception"]
              /\ UNCHANGED audit_logs
    /\ PkiFrame

\* renew_certificate, after generate_certificate has returned: soft delete the
\* old certificate, commit, the certificate_renewed audit entry.
RenewCertificateRetire ==
    /\ pki.gpc = "retire"
    /\ pki' = [pki EXCEPT !.certs[pki.old].deleted = TRUE, !.gpc = "done",
                          !.gresult = "returned"]
    /\ PkiAudit("certificate_renewed")
    /\ PkiFrame

DeleteCa == DeleteCaStart \/ DeleteCaCount \/ DeleteCaWrite

GenerateCertificate == GenerateCertificateStart \/ GenerateCertificateInsert

RenewCertificate ==
    \/ \E c \in 1..MaxCertRequests + 1 : RenewCertificateStart(c)
    \/ RenewCertificateRetire

NextPki == DeleteCa \/ GenerateCertificate \/ RenewCertificate

-----------------------------------------------------------------------------
(* BackupScheduler: the schedule and one pass of the run() loop *)

\* last_backup_time of an entry that has not run.
NEVER == -1

\* max_retries of BackupJob
MAX_RETRIES == 3

BackupSchedules == {"daily", "weekly", "monthly", "custom"}

\* schedule_backup(resource_id, schedule, enabled=enabled): the entry it stores.
ScheduledBackup(s, enabled) ==
    [schedule |-> s, enabled |-> enabled, last_backup_time |-> NEVER,
     next_backup_time |-> now, retry_count |-> 0]

\* BackupJob.should_run(); next_backup_time is set in every scheduled entry.
ShouldRun(job) ==
    /\ job.enabled
    /\ now >= job.next_backup_time

\* calculate_next_run with every schedule taken as daily.
CalculateNextRunDaily(job) == now + 1

\* BackupJob.calculate_next_run()
CalculateNextRun(job) ==
    IF job.schedule = "daily" THEN now + 1
    ELSE IF job.schedule = "weekly" THEN now + 7
    ELSE IF job.schedule = "monthly" THEN now + 30
    ELSE now + 1

\* The locals of a pass of the loop that has not started.  before is the
\* schedule as the pass found it and current_time its time; for each entry, ran
\* is whether execute_backup
\* was called, created whether the backup was created, result how it ended.
NoScan ==
    [idx |-> 0, before |-> <<>>, current_time |-> 0,
     ran |-> [r \in ResIds |-> FALSE],
     created |-> [r \in ResIds |-> FALSE],
     result |-> [r \in ResIds |-> "none"]]

\* How the backup of execute_backup may go: the dump or the upload or the
\* verification raises, or all succeed.
BackupOutcomes == {"completed", "backup_failed", "upload_failed"}

\* A pass of `while self.running` begins.
ScanStart ==
    /\ spc = "idle"
    /\ \A r \in ResIds : schedule[r].retry_count < MaxRetryCount
    /\ sop' = [NoScan EXCEPT !.idx = 1, !.before = schedule,
                              !.current_time = now]
    /\ spc' = "scan"
    /\ UNCHANGED <<schedule, clock>>
    /\ UNCHANGED <<provVars, userVars, extVars, certVars, collector, worker, risk, now, loops, pki>>

\* The try block of execute_backup has raised: retry_count += 1.
BackupFailed(job) == [job EXCEPT !.retry_count = @ + 1]

\* The try block of execute_backup has come to its end.
BackupSucceeded(job) ==
    [job EXCEPT !.last_backup_time = now,
                !.next_backup_time = CalculateNextRun(job),
                !.retry_count = 0]

\* `if job.should_run(): execute_backup(resource_id)` for the next entry.  No
\* job_id is passed, so nothing is written to db.backup_jobs.
ScanEntry ==
    /\ spc = "scan"
    /\ LET r == sop.idx
           job == schedule[r]
           next == IF r < NumResources THEN "scan" ELSE "idle"
       IN  IF ~ShouldRun(job)
           THEN /\ sop' = [sop EXCEPT !.idx = @ + 1, !.result[r] = "not due"]
                /\ spc' = next
                /\ UNCHANGED schedule
           ELSE IF job.retry_count > MAX_RETRIES
           THEN /\ schedule' = [schedule EXCEPT ![r] = BackupFailed(job)]
                /\ sop' = [sop EXCEPT !.idx = @ + 1, !.ran[r] = TRUE,
                                      !.result[r] = "max retries exceeded"]
                /\ spc' = next
           ELSE \E outcome \in BackupOutcomes :
                  /\ schedule' = [schedule EXCEPT ![r] =
                        IF outcome = "completed" THEN BackupSucceeded(job)
                        ELSE BackupFailed(job)]
                  /\ sop' = [sop EXCEPT !.idx = @ + 1, !.ran[r] = TRUE,
                                        !.created[r] = TRUE,
                                        !.result[r] = outcome]
                  /\ spc' = next
    /\ UNCHANGED clock
    /\ UNCHANGED <<provVars, userVars, extVars, certVars, collector, worker, risk, now, loops, pki>>

\* A day passes between two passes of the loop.
Tick ==
    /\ spc = "idle"
    /\ now < MaxDay
    /\ now' = now + 1
    /\ UNCHANGED <<schedule, spc, sop, clock>>
    /\ UNCHANGED <<provVars, userVars, extVars, certVars, collector, worker, risk, loops, pki>>

\* The loop at 00:00 with no cleanup run.  minute is the minute of the day,
\* cleanups the cleanup_old_backups() calls made, passes the passes begun.
Midnight == [minute |-> 0, cleanups |-> 0, passes |-> 0]

\* How many whole minutes a pass takes before its sleep: less than one, or one.
PassMinutes == {0, 1}

\* One pass of the loop as the clock sees it: current_time = datetime.utcnow();
\* the entries are gone through; cleanup_old_backups() `if current_time.hour ==
\* 2 and current_time.minute < 5`; asyncio.sleep(300).
LoopPass ==
    /\ spc = "idle"
    /\ clock.minute <= MaxMinute
    /\ \E took \in PassMinutes :
         LET hour == clock.minute \div 60
             minute == clock.minute % 60
         IN  clock' = [minute |-> clock.minute + took + 5,
                       cleanups |-> IF hour = 2 /\ minute < 5
                                    THEN clock.cleanups + 1 ELSE clock.cleanups,
                       passes |-> clock.passes + 1]
    /\ UNCHANGED <<schedule, spc, sop>>
    /\ UNCHANGED <<provVars, userVars, extVars, certVars, collector, worker, risk, now, loops, pki>>

NextCleanup == LoopPass

NextBackups ==
    \/ ScanStart
    \/ ScanEntry
    \/ Tick

-----------------------------------------------------------------------------
(* StatsCollector: start, stop and the worker threads *)

\* The collector as __init__ leaves it.  threads lists the position of every
\* thread start() has started; caller is where the thread calling start() and
\* stop() is.
NoCollector ==
    [running |-> FALSE, stop_event |-> FALSE, threads |-> <<>>,
     caller |-> "idle", calls |-> 0, returned |-> NULL,
     cycles |-> 0, selected |-> <<>>, outcome |-> [r \in ResIds |-> "none"],
     failed |-> [r \in ResIds |-> FALSE],
     errors |-> [r \in ResIds |-> 0], errors_before |-> [r \in ResIds |-> 0],
     stats_before |-> 0, before |-> <<>>]

\* start(): nothing when _running; else set _running, clear the stop event and
\* start a thread on run().
CollectorStart ==
    /\ collector.caller = "idle"
    /\ collector.calls < MaxCollectorCalls
    /\ collector' =
          IF collector.running
          THEN [collector EXCEPT !.calls = @ + 1, !.returned = "already running"]
          ELSE [collector EXCEPT !.calls = @ + 1, !.returned = "started",
                                 !.running = TRUE, !.stop_event = FALSE,
                                 !.threads = Append(@, "loop")]
    /\ UNCHANGED <<provVars, userVars, extVars, certVars, schedVars, worker, risk, now, loops, pki>>

\* stop(): True when not _running; else set the stop event, clear _running and
\* join self._thread, the thread the last start() started.
CollectorStop ==
    /\ collector.caller = "idle"
    /\ collector.calls < MaxCollectorCalls
    /\ collector' =
          IF ~collector.running
          THEN [collector EXCEPT !.calls = @ + 1, !.returned = "True"]
          ELSE [collector EXCEPT !.calls = @ + 1, !.returned = NULL,
                                 !.stop_event = TRUE, !.running = FALSE,
                                 !.caller = "join"]
    /\ UNCHANGED <<provVars, userVars, extVars, certVars, schedVars, worker, risk, now, loops, pki>>

\* self._thread.join(timeout=timeout): the thread has ended, or the timeout
\* passes with the thread still inside collect_all_stats and stop() returns
\* False.
CollectorJoin ==
    /\ collector.caller = "join"
    /\ LET t == collector.threads[Len(collector.threads)]
       IN  /\ t \in {"exited", "cycle"}
           /\ collector' = [collector EXCEPT
                 !.caller = "idle",
                 !.returned = IF t = "cycle" THEN "False" ELSE "True"]
    /\ UNCHANGED <<provVars, userVars, extVars, certVars, schedVars, worker, risk, now, loops, pki>>

\* run(): `while not self._stop_event.is_set()`.
CollectorLoop(i) ==
    /\ i \in 1..Len(collector.threads)
    /\ collector.threads[i] = "loop"
    /\ collector' = [collector EXCEPT
          !.threads[i] = IF collector.stop_event THEN "exited" ELSE "cycle"]
    /\ UNCHANGED <<provVars, userVars, extVars, certVars, schedVars, worker, risk, now, loops, pki>>

\* The query of collect_all_stats: active, of lifecycle mode full or partial,
\* not soft-deleted.
CollectorSelects(row) ==
    /\ row.status = "active"
    /\ row.lifecycle_mode \in {"full", "partial"}
    /\ row.deleted_at = NULL

\* The rows it returns, in id order.
RECURSIVE ActiveUpTo(_)
ActiveUpTo(n) ==
    IF n = 0 THEN <<>>
    ELSE IF CollectorSelects(resources[n]) THEN Append(ActiveUpTo(n - 1), n)
         ELSE ActiveUpTo(n - 1)

\* The resource type names _get_resource_connector has a connector for.
COLLECTOR_CONNECTOR_TYPES == {"postgresql", "mariadb", "redis", "ceph", "san"}

\* is_k8s of collect_resource_stats.
IsK8s(row) == row.k8s_namespace # NULL /\ row.k8s_resource_name # NULL

\* What happens while one resource is collected: the metrics arrive and the row
\* is inserted, the fetch of the pod metrics or the connector fails, or the
\* insert into db.resource_stats fails.
CollectInputs == {"ok", "fetch_failed", "insert_failed"}

\* The metrics _parse_k8s_metrics or _normalize_external_metrics returns.
CollectedMetrics(row) ==
    IF IsK8s(row)
    THEN [NoMetrics EXCEPT !.cpu_percent = 90, !.memory_percent = 50]
    ELSE [NoMetrics EXCEPT !.connections = [active |-> 1, total |-> 10]]

\* collect_resource_stats(resource): _collect_k8s_metrics and
\* _collect_external_metrics return None for every failure, also for a type
\* without connector, and then `if not metrics: return`; a failure of the
\* insert is raised to collect_all_stats.
CollectOutcome(row, input) ==
    IF input = "fetch_failed" THEN "no_metrics"
    ELSE IF ~IsK8s(row) /\ row.resource_type \notin COLLECTOR_CONNECTOR_TYPES
         THEN "no_metrics"
    ELSE IF input = "insert_failed" THEN "raised"
    ELSE "collected"

\* The rows one cycle inserts for the resources ids, in order.
RECURSIVE StatsRows(_, _)
StatsRows(ids, outcome) ==
    IF ids = <<>> THEN <<>>
    ELSE LET r == Head(ids)
         IN  (IF outcome[r] = "collected"
              THEN <<[resource_id |-> r,
                      risk_level |->
                          CollectorCalculateRiskLevel(CollectedMetrics(resources[r]))]>>
              ELSE <<>>) \o StatsRows(Tail(ids), outcome)

\* collect_all_stats(): collect_resource_stats for every selected resource;
\* `except Exception` counts the resource in STATS_COLLECTION_ERRORS and goes
\* on with the next.
CollectorCycle(i) ==
    /\ i \in 1..Len(collector.threads)
    /\ collector.threads[i] = "cycle"
    /\ collector.cycles < MaxCycles
    /\ \E input \in [ResIds -> CollectInputs] :
         LET selected == ActiveUpTo(NumResources)
             outcome == [r \in ResIds |->
                           IF CollectorSelects(resources[r])
                           THEN CollectOutcome(resources[r], input[r])
                           ELSE "none"]
         IN  /\ resource_stats' = resource_stats \o StatsRows(selected, outcome)
             /\ collector' = [collector EXCEPT
                   !.threads[i] = "wait",
                   !.cycles = @ + 1,
                   !.selected = selected,
                   !.outcome = outcome,
                   !.failed = [r \in ResIds |->
                                 /\ CollectorSelects(resources[r])
                                 /\ input[r] # "ok"],
                   !.errors_before = collector.errors,
                   !.errors = [r \in ResIds |->
                                 @[r] + IF outcome[r] = "raised" THEN 1 ELSE 0],
                   !.stats_before = Len(resource_stats),
                   !.before = resources]
    /\ UNCHANGED <<eop, backup_jobs, audit_logs>>
    /\ UNCHANGED <<provVars, userVars, certVars, schedVars, worker, risk, now, loops, pki>>

\* self._stop_event.wait(remaining) returns, the event set or the interval over.
CollectorWait(i) ==
    /\ i \in 1..Len(collector.threads)
    /\ collector.threads[i] = "wait"
    /\ collector' = [collector EXCEPT !.threads[i] = "loop"]
    /\ UNCHANGED <<provVars, userVars, extVars, certVars, schedVars, worker, risk, now, loops, pki>>

CollectorThreads == 1..((MaxCollectorCalls + 1) \div 2)

NextCollector ==
    \/ CollectorStart
    \/ CollectorStop
    \/ CollectorJoin
    \/ \E i \in CollectorThreads : CollectorLoop(i)
    \/ \E i \in CollectorThreads : CollectorCycle(i)
    \/ \E i \in CollectorThreads : CollectorWait(i)

-----------------------------------------------------------------------------
(* The provisioning controller *)

\* The rows the API layer has inserted: a PostgreSQL resource with or without the
\* per-instance capabilities, or a resource of a type without full lifecycle.
ResourceProfiles ==
    {NewResource("db-postgresql", TRUE, TRUE),
     NewResource("db-postgresql", FALSE, FALSE),
     NewResource("storage-ceph", FALSE, FALSE)}

InitResources == resources \in [ResIds -> ResourceProfiles]

InitProvisioner ==
    /\ InitResources
    /\ provisioning_jobs = <<>>
    /\ cluster = [ns \in Namespaces |-> NoNamespace]
    /\ pc = "idle"
    /\ op = NoOp

InitUsers ==
    /\ resource_users = [u \in UserIds |-> NewResourceUser(ResourceOfUser(u))]
    /\ remote_users = {}
    /\ upc = "idle"
    /\ uop = NoSync
    /\ wpc = "idle"
    /\ wop = NoWork
    /\ sync_calls = 0
    /\ sync_log = NoSyncLog

\* No ExternalOps request has been made.
InitNoRequests ==
    /\ eop = NoRequest
    /\ backup_jobs = <<>>
    /\ resource_stats = <<>>
    /\ audit_logs = <<>>

\* The background workers have not been constructed.
InitNoWorkers ==
    /\ certificates = <<>>
    /\ cpc = "idle"
    /\ cop = NoCycle
    /\ tls_secrets = [r \in ResIds |-> 0]
    /\ schedule = <<>>
    /\ spc = "idle"
    /\ sop = NoScan
    /\ clock = Midnight
    /\ collector = NoCollector
    /\ risk = NoRisk
    /\ loops = NoLoop
    /\ pki = NoPki
    /\ worker = NoWorker
    /\ now = 0

Init == InitProvisioner /\ InitUsers /\ InitNoRequests /\ InitNoWorkers

Next ==
    \/ Provision
    \/ Deprovision
    \/ Scale
    \/ UpdateConfig
    \/ \E ns \in Namespaces : NamespaceFinalized(ns)

Spec == Init /\ [][Next]_vars

-----------------------------------------------------------------------------
(* Properties of the provisioning controller *)

\* A request has finished: it has returned or raised.
Finished(kind) == pc = "done" /\ op.kind = kind

\* The jobs the request in flight has inserted.
JobsOfRequest ==
    {provisioning_jobs[i] : i \in (op.jobs_before + 1)..Len(provisioning_jobs)}

IsPrefix(s, t) == Len(s) <= Len(t) /\ \A i \in 1..Len(s) : s[i] = t[i]

Without(seq, x) == SelectSeq(seq, LAMBDA e : e # x)

\* C1: in every reachable state, every resource with lifecycle mode full and
\* status active has a namespace and a resource name.
ActiveResourceIsBound ==
    \A r \in ResIds :
        (resources[r].lifecycle_mode = "full" /\ resources[r].status = "active")
            => /\ resources[r].k8s_namespace # NULL
               /\ resources[r].k8s_resource_name # NULL

\* The steps of provision_resource that follow the generation of credentials.
StepsAfterCredentials ==
    {"create_secret", "render_template", "create_statefulset", "create_service",
     "wait_ready"}

\* C2: once a provision that failed at a step after credential generation has
\* raised, the resource has status error and the team namespace is absent or its
\* deletion has been requested.
FailedProvisionIsRolledBack ==
    (Finished("provision") /\ op.failed_at \in StepsAfterCredentials)
        => /\ resources[op.resource_id].status = "error"
           /\ cluster[op.namespace].phase \in {"absent", "terminating"}

\* C3: once a provision whose StatefulSet never became ready, and in which no
\* other call failed, has raised, delete_namespace has been called exactly once, exactly one job has been
\* appended, of type provision, failed and with a non-empty error message, and
\* the caller sees the readiness failure.
ReadinessTimeoutRollsBackOnce ==
    (Finished("provision") /\ op.failed_at = "wait_ready" /\ op.failures = 0)
        => /\ op.delete_namespace_calls = 1
           /\ Len(provisioning_jobs) = op.jobs_before + 1
           /\ \A j \in JobsOfRequest :
                /\ j.job_type = "provision"
                /\ j.status = "failed"
                /\ j.error_message # ""
           /\ op.surfaced = "RuntimeError"

\* The edges of the status state machine.
StatusEdges ==
    {<<"pending", "provisioning">>, <<"provisioning", "active">>,
     <<"provisioning", "error">>, <<"active", "updating">>,
     <<"updating", "active">>, <<"updating", "error">>,
     <<"active", "deleted">>, <<"error", "deleted">>}

\* C4: every step that changes the status of a resource changes it along an
\* edge of the state machine.
StatusFollowsStateMachine ==
    [][\A r \in ResIds :
          resources'[r].status # resources[r].status
              => <<resources[r].status, resources'[r].status>> \in StatusEdges]_vars

\* The effects of a provision in the order the claim gives: Service before
\* StatefulSet.
ClaimedEffectOrder ==
    <<"create_namespace", "create_secret", "create_service", "create_statefulset",
      "wait_ready", "resource_update", "job_insert">>

\* The effects of a provision with the StatefulSet before the Service.
WorkloadFirstEffectOrder ==
    <<"create_namespace", "create_secret", "create_statefulset", "create_service",
      "wait_ready", "resource_update", "job_insert">>

\* The effects so far of the provision in flight run in the given order, the
\* Service being left out when the bundle has none.
EffectsFollow(order) ==
    (op.kind = "provision" /\ op.error = NULL)
        => \/ IsPrefix(op.trace, order)
           \/ /\ ~op.service_manifest
              /\ IsPrefix(op.trace, Without(order, "create_service"))

\* C5 as stated: within one provision the effects occur in the order namespace,
\* secret, Service (if any), StatefulSet, readiness wait, resource write, job
\* record.
ProvisionEffectsInClaimedOrder == EffectsFollow(ClaimedEffectOrder)

\* C5, amended: within one provision the effects occur in the order namespace,
\* secret, StatefulSet, Service (if any), readiness wait, resource write, job
\* record; no later effect happens before an earlier one.
ProvisionEffectsInOrder == EffectsFollow(WorkloadFirstEffectOrder)

\* A provision of a bundle with a Service has returned, all seven effects made.
ProvisionedWithService ==
    /\ Finished("provision")
    /\ op.result = "returned"
    /\ op.service_manifest
    /\ Len(op.trace) = 7

\* The row is as it was before the request, but for a status of error.
RowAsBefore(row, prior) ==
    /\ [row EXCEPT !.status = prior.status] = prior
    /\ row.status \in {prior.status, "error"}

\* C6: once a request has returned or raised, either the resource has been
\* written and the completed job of the request is there, or the resource is as
\* it was before the request and the request has no completed job.
ResourceAndJobAreAtomic ==
    (pc = "done" /\ op.kind # "none")
        => LET completed == \E j \in JobsOfRequest : j.status = "completed"
               written == \E i \in 1..Len(op.trace) : op.trace[i] = "resource_update"
               asBefore == RowAsBefore(resources[op.resource_id], op.prior)
           IN  \/ completed /\ written
               \/ ~completed /\ asBefore

\* C7: in every reachable state, every resource with status deleted has
\* deleted_at set and k8s_namespace, k8s_resource_name and k8s_resource_type
\* cleared.
DeletedResourceIsCleared ==
    \A r \in ResIds :
        resources[r].status = "deleted"
            => /\ resources[r].deleted_at # NULL
               /\ resources[r].k8s_namespace = NULL
               /\ resources[r].k8s_resource_name = NULL
               /\ resources[r].k8s_resource_type = NULL

\* The resource of the request in flight had been provisioned with success
\* when the request started.
WasProvisioned ==
    /\ op.prior.status = "active"
    /\ op.prior.k8s_namespace # NULL
    /\ \E i \in 1..op.jobs_before :
         /\ provisioning_jobs[i].resource_id = op.resource_id
         /\ provisioning_jobs[i].job_type = "provision"
         /\ provisioning_jobs[i].status = "completed"

\* C8: when a deprovision of a resource provisioned with success has returned,
\* the resource has status deleted and no binding, and the namespace is absent
\* from the cluster.
DeprovisionLeavesNoNamespace ==
    (Finished("deprovision") /\ op.result = "returned" /\ WasProvisioned)
        => /\ resources[op.resource_id].status = "deleted"
           /\ resources[op.resource_id].k8s_namespace = NULL
           /\ resources[op.resource_id].k8s_resource_name = NULL
           /\ cluster[op.namespace].phase = "absent"

-----------------------------------------------------------------------------
(* User synchronisation: ExternalOps requests and the worker, side by side *)

\* The externally hosted resources the store holds.
ExternalProfiles ==
    {ExternalResource("db-postgresql", "partial", TRUE),
     ExternalResource("db-postgresql", "monitor_only", FALSE)}

InitExternal ==
    /\ resources \in [ResIds -> ExternalProfiles]
    /\ provisioning_jobs = <<>>
    /\ cluster = [ns \in Namespaces |-> NoNamespace]
    /\ pc = "idle"
    /\ op = NoOp

InitSync == InitExternal /\ InitUsers /\ InitNoRequests /\ InitNoWorkers

NextUsers ==
    \/ SyncUsers
    \/ SyncUser
    \/ DeleteUser

SpecUsers == InitSync /\ [][NextUsers]_vars

\* The readiness wait of the provision request has seen the workload ready.
WorkloadWasReady ==
    /\ op.failed_at # "wait_ready"
    /\ \E i \in 1..Len(op.trace) : op.trace[i] = "wait_ready"

\* C36: a provision request whose rendered bundle has a StatefulSet and no
\* Service, and whose workload became ready, returns with the resource active,
\* bound to the cluster, with connection info, and a completed provision job
\* (unless the store fails at its two writes).
ProvisionWithoutServiceCompletes ==
    (/\ Finished("provision")
     /\ ~op.service_manifest
     /\ WorkloadWasReady
     /\ op.failed_at \notin {"resource_update", "job_insert"})
        => /\ op.result = "returned"
           /\ resources[op.resource_id].status = "active"
           /\ resources[op.resource_id].k8s_namespace # NULL
           /\ resources[op.resource_id].k8s_resource_name # NULL
           /\ resources[op.resource_id].connection_info # NULL
           /\ \E j \in JobsOfRequest :
                 j.job_type = "provision" /\ j.status = "completed"

\* What the request does instead: it raises the UnboundLocalError of step 11
\* and inserts no completed job.
ProvisionWithoutServiceRaises ==
    (Finished("provision") /\ ~op.service_manifest /\ WorkloadWasReady)
        => /\ op.result = "raised"
           /\ op.surfaced = "UnboundLocalError"
           /\ op.failed_at = "connection_info"
           /\ \A j \in JobsOfRequest : j.status # "completed"

\* With a Service in the bundle the request does complete.
ProvisionWithServiceCompleted ==
    /\ Finished("provision")
    /\ op.service_manifest
    /\ op.result = "returned"
    /\ resources[op.resource_id].status = "active"

\* A bundle without Service was provisioned and the workload became ready.
ProvisionedWithoutService ==
    Finished("provision") /\ ~op.service_manifest /\ WorkloadWasReady

-----------------------------------------------------------------------------
(* The provisioning controller called with ids that have no row *)

NextMissing ==
    \/ Next
    \/ \E id \in MissingIds : NotFound("provision", id, "provision_except")
    \/ \E id \in MissingIds : NotFound("deprovision", id, "deprovision_except")
    \/ \E id \in MissingIds : NotFound("scale", id, "scale_except")
    \/ \E id \in MissingIds : NotFound("update_config", id, "update_config_except")

SpecMissing == Init /\ [][NextMissing]_vars

\* The request in flight has made no call to the cluster client: it has made
\* store calls only.
NoClusterCall ==
    /\ op.delete_namespace_calls = 0
    /\ \A i \in 1..Len(op.trace) : op.trace[i] \in {"resource_update", "job_insert"}

\* C37: a provision, deprovision, scale or update-config request for an id
\* that has no row raises the not-found error, calls the cluster client not at
\* all, and neither creates nor changes a Resource row.
NotFoundChangesNothing ==
    (pc = "done" /\ op.missing) =>
        /\ op.result = "raised"
        /\ op.surfaced = "ValueError"
        /\ NoClusterCall
        /\ resources = op.table_before

\* What holds of such a request: it raises the ValueError and leaves the cluster
\* alone; deprovision and scale leave db.resources alone too, and provision and
\* update-config change no row that was there.
NotFoundRaisesAndKeepsRows ==
    (pc = "done" /\ op.missing) =>
        /\ op.result = "raised"
        /\ op.surfaced = "ValueError"
        /\ NoClusterCall
        /\ op.kind \in {"deprovision", "scale"} => resources = op.table_before
        /\ \A r \in DOMAIN op.table_before : resources[r] = op.table_before[r]

\* A provision request for an id without row has raised, and db.resources has
\* a row more than before.
NotFoundInsertedRow ==
    /\ pc = "done"
    /\ op.missing
    /\ op.kind = "provision"
    /\ DOMAIN resources # DOMAIN op.table_before

-----------------------------------------------------------------------------
(* The CertificateController under two concurrent callers *)

InitPki ==
    /\ resources = [r \in ResIds |-> NewResource("db-postgresql", TRUE, TRUE)]
    /\ provisioning_jobs = <<>>
    /\ cluster = [ns \in Namespaces |-> NoNamespace]
    /\ pc = "idle"
    /\ op = NoOp
    /\ InitUsers
    /\ InitNoRequests
    /\ certificates = <<>>
    /\ cpc = "idle"
    /\ cop = NoCycle
    /\ tls_secrets = [r \in ResIds |-> 0]
    /\ schedule = <<>>
    /\ spc = "idle"
    /\ sop = NoScan
    /\ clock = Midnight
    /\ collector = NoCollector
    /\ worker = NoWorker
    /\ risk = NoRisk
    /\ loops = NoLoop
    /\ pki \in {NoPki, [NoPki EXCEPT !.certs = <<IssuedRow(FALSE)>>],
                [NoPki EXCEPT !.certs = <<IssuedRow(TRUE)>>]}
    /\ now = 0

SpecPki == InitPki /\ [][NextPki]_vars

\* C38: under every interleaving of delete_ca with generate_certificate and
\* renew_certificate, every certificate that is not soft-deleted names a
\* certificate authority that is not soft-deleted.
LiveCertificateHasLiveCa ==
    \A i \in 1..Len(pki.certs) :
        ~pki.certs[i].deleted => ~pki.ca_deleted

\* The same of the runs in which no request started while another one was in
\* flight: there it holds.
SerialRequestsKeepLiveCa ==
    ~pki.overlapped => LiveCertificateHasLiveCa

\* delete_ca has returned while generate_certificate, which had loaded the CA
\* before, has gone on to insert its row.
IssuedFromDeletedCa ==
    /\ pki.dresult = "returned"
    /\ pki.gresult = "returned"
    /\ pki.ca_deleted
    /\ Dependents(pki) # {}

-----------------------------------------------------------------------------
(* scale_resource on provisioned resources *)

\* A provisioned resource: the TLS Secret of its certificates is in the cluster.
BoundResource(r) ==
    [NewResource("db-postgresql", TRUE, TRUE) EXCEPT
        !.status = "active", !.k8s_namespace = NamespaceOf(r),
        !.k8s_resource_name = StatefulSetNameOf(r),
        !.k8s_resource_type = "StatefulSet",
        !.connection_info = "endpoint", !.credentials = "ciphertext"]

\* The namespace of a provisioned resource: Secret, StatefulSet and Service in
\* it, one replica, ready.
ProvisionedNamespace ==
    [phase |-> "active", secret |-> TRUE, statefulset |-> TRUE,
     service |-> TRUE, replicas |-> 1, readyReplicas |-> 1]

\* The rows scale_resource finds: provisioned, with can_scale or without, or
\* never provisioned.
ScaleProfiles ==
    {[BoundResource(1) EXCEPT !.config = [replicas |-> 1]],
     [BoundResource(1) EXCEPT !.config = [replicas |-> 1], !.can_scale = FALSE],
     NewResource("db-postgresql", TRUE, TRUE)}

InitScale ==
    /\ resources \in [ResIds -> ScaleProfiles]
    /\ provisioning_jobs = <<>>
    /\ cluster = [ns \in Namespaces |->
                    IF \E r \in ResIds : resources[r].k8s_namespace = ns
                    THEN ProvisionedNamespace ELSE NoNamespace]
    /\ pc = "idle"
    /\ op = NoOp
    /\ InitUsers
    /\ InitNoRequests
    /\ InitNoWorkers

SpecScale == InitScale /\ [][Scale]_vars

\* config.replicas of a row, 0 when the key is not there.
ConfigReplicas(row) ==
    IF "replicas" \in DOMAIN row.config THEN row.config.replicas ELSE 0

\* A scale request has returned, and the request before it was a scale of the
\* same resource to the same count that returned too.
ScaledAgain ==
    /\ Finished("scale")
    /\ op.result = "returned"
    /\ op.last.kind = "scale"
    /\ op.last.result = "returned"
    /\ op.last.resource_id = op.resource_id
    /\ op.last.replicas = op.replicas

ScaleCompletesOnlyWhenReady ==
    Finished("scale") =>
        /\ (\E j \in JobsOfRequest : j.status = "completed")
              => op.ns_wait = "ready"
        /\ ConfigReplicas(resources[op.resource_id]) # ConfigReplicas(op.prior)
              => op.ns_wait = "ready"
        /\ op.ns_wait = "timeout" => op.result = "raised"

\* What scale_resource does after a wait that timed out, when the store does
\* not fail: it merges replicas, inserts the completed job and returns.
ScaleCompletesAfterTimeout ==
    (Finished("scale") /\ op.ns_wait = "timeout" /\ op.error = NULL) =>
        /\ op.result = "returned"
        /\ ConfigReplicas(resources[op.resource_id]) = op.replicas
        /\ \E j \in JobsOfRequest : j.status = "completed"

\* A scale request has returned after a wait that timed out.
ScaleReturnedAfterTimeout ==
    Finished("scale") /\ op.ns_wait = "timeout" /\ op.result = "returned"

-----------------------------------------------------------------------------
(* The run() loops of CertRotationWorker, BackupScheduler and UserSyncWorker *)

\* The first statement of run(): CertRotationWorker sets is_running = True,
\* BackupScheduler sets running = True, UserSyncWorker sets nothing.  A task
\* cancelled before its first step never runs the body.
RunEnter ==
    /\ loops.pc = "start"
    /\ loops' = IF loops.cancelled
                THEN [loops EXCEPT !.pc = "exited"]
                ELSE [loops EXCEPT !.pc = "check",
                                   !.running = IF loops.kind = "user_sync"
                                               THEN @ ELSE TRUE]
    /\ UNCHANGED <<provVars, userVars, extVars, certVars, schedVars, collector,
                   worker, risk, now, pki>>

\* `while self.is_running:` / `while self.running:`: into the cycle, or out of
\* the loop; CertRotationWorker and BackupScheduler clear the flag in `finally`.
LoopCheck ==
    /\ loops.pc = "check"
    /\ IF loops.running
       THEN /\ loops.cycles < MaxCycles
            /\ loops' = [loops EXCEPT
                 !.pc = "cycle",
                 !.cycles = @ + 1,
                 !.late_cycles = @ + IF loops.requested THEN 1 ELSE 0]
       ELSE loops' = [loops EXCEPT !.pc = "exited"]
    /\ UNCHANGED <<provVars, userVars, extVars, certVars, schedVars, collector,
                   worker, risk, now, pki>>

\* The cycle returns or raises; `except Exception` absorbs what it raises, and
\* the loop goes to sleep.
CycleReturns ==
    /\ loops.pc = "cycle"
    /\ \E raised \in BOOLEAN :
         loops' = [loops EXCEPT !.pc = "sleep", !.absorbed = raised]
    /\ UNCHANGED <<provVars, userVars, extVars, certVars, schedVars, collector,
                   worker, risk, now, pki>>

\* time.sleep(...) returns; `await asyncio.sleep(...)` returns or, in a
\* cancelled task, raises CancelledError, which ends run().
SleepReturns ==
    /\ loops.pc = "sleep"
    /\ loops' = IF loops.cancelled
                THEN [loops EXCEPT !.pc = "exited", !.running = FALSE]
                ELSE [loops EXCEPT !.pc = "check"]
    /\ UNCHANGED <<provVars, userVars, extVars, certVars, schedVars, collector,
                   worker, risk, now, pki>>

\* CertRotationWorker.stop(), BackupScheduler.stop() (which also cancels
\* worker_task when it is set), UserSyncWorker._handle_shutdown(signum, frame).
Stop ==
    /\ loops.pc \notin {"none", "exited"}
    /\ ~loops.requested
    /\ loops' = [loops EXCEPT !.running = FALSE, !.requested = TRUE,
                              !.cancelled = loops.kind = "backup_scheduler"
                                            /\ loops.task]
    /\ UNCHANGED <<provVars, userVars, extVars, certVars, schedVars, collector,
                   worker, risk, now, pki>>

\* SIGINT in CertRotationWorker, which installs no handler: KeyboardInterrupt
\* leaves the loop, `finally: self.stop()`.
KeyboardInterrupt ==
    /\ loops.kind = "cert_rotation"
    /\ loops.pc \in {"cycle", "sleep"}
    /\ ~loops.requested
    /\ loops' = [loops EXCEPT !.pc = "exited", !.running = FALSE,
                              !.requested = TRUE]
    /\ UNCHANGED <<provVars, userVars, extVars, certVars, schedVars, collector,
                   worker, risk, now, pki>>

RunStep == RunEnter \/ LoopCheck \/ CycleReturns \/ SleepReturns

NextLoops == RunStep \/ Stop \/ KeyboardInterrupt

InitLoops ==
    /\ resources = [r \in ResIds |-> NewResource("db-postgresql", TRUE, TRUE)]
    /\ provisioning_jobs = <<>>
    /\ cluster = [ns \in Namespaces |-> NoNamespace]
    /\ pc = "idle"
    /\ op = NoOp
    /\ InitUsers
    /\ InitNoRequests
    /\ certificates = <<>>
    /\ cpc = "idle"
    /\ cop = NoCycle
    /\ tls_secrets = [r \in ResIds |-> 0]
    /\ schedule = <<>>
    /\ spc = "idle"
    /\ sop = NoScan
    /\ clock = Midnight
    /\ collector = NoCollector
    /\ worker = NoWorker
    /\ risk = NoRisk
    /\ \E w \in Workers, task \in BOOLEAN :
         /\ task => w = "backup_scheduler"
         /\ loops = Constructed(w, task)
    /\ pki = NoPki
    /\ now = 0

SpecLoops == InitLoops /\ [][NextLoops]_vars

\* The thread or task of run() keeps running, and its blocking calls return.
SpecLoopsFair == SpecLoops /\ WF_vars(RunStep)

\* C31: once shutdown is requested, by stop() or by a signal, the worker starts
\* no cycle any more and its loop comes to its end.
ShutdownEndsTheLoop ==
    /\ [](loops.late_cycles = 0)
    /\ (loops.requested ~> loops.pc = "exited")

\* What holds of every worker: a shutdown requested once run() is past its
\* first statement is seen at the next test of the flag, no cycle starts after
\* it and the loop ends; UserSyncWorker, whose run() does not set the flag, also
\* honours a request made before.
HonoursRequest ==
    \/ loops.kind = "user_sync"
    \/ loops.cancelled
    \/ (~loops.running /\ loops.pc # "start")

ShutdownAfterEnterEndsTheLoop ==
    /\ [](loops.requested /\ HonoursRequest => loops.late_cycles = 0)
    /\ ((loops.requested /\ HonoursRequest) ~> loops.pc = "exited")

\* stop() was called before the first statement of CertRotationWorker.run(),
\* and the worker is in a cycle it started afterwards.
StopBeforeRunIsLost ==
    /\ loops.kind = "cert_rotation"
    /\ loops.requested
    /\ loops.pc = "cycle"
    /\ loops.late_cycles > 0

-----------------------------------------------------------------------------
(* The UserSyncWorker alone: its cycles over rows in every sync_status *)

\* The resources the worker finds: with credentials, or with none (for which
\* _get_connector returns None).
WorkerProfiles ==
    {ExternalResource("db-postgresql", "partial", TRUE),
     [ExternalResource("db-postgresql", "partial", TRUE) EXCEPT !.credentials = NULL]}

SyncStatuses == {"pending", "syncing", "synced", "error"}

\* A row of db.resource_users in sync_status s, created at time t.
StoredResourceUser(r, s, t) ==
    [NewResourceUser(r) EXCEPT
        !.sync_status = s,
        !.last_synced_at = IF s = "synced" THEN "earlier" ELSE NULL,
        !.sync_error = IF s = "error" THEN "Connection failed - will retry" ELSE NULL,
        !.created_at = t]

InitWorker ==
    /\ \E profile \in WorkerProfiles : resources = [r \in ResIds |-> profile]
    /\ provisioning_jobs = <<>>
    /\ cluster = [ns \in Namespaces |-> NoNamespace]
    /\ pc = "idle"
    /\ op = NoOp
    /\ \E status \in [UserIds -> SyncStatuses], newest_first \in BOOLEAN,
          present \in BOOLEAN :
         /\ resource_users =
              [u \in UserIds |->
                 StoredResourceUser(ResourceOfUser(u), status[u],
                                    IF newest_first THEN NumUsers + 1 - u ELSE u)]
         /\ remote_users = {u \in UserIds : \/ status[u] = "synced"
                                            \/ status[u] = "error" /\ present}
    /\ upc = "idle"
    /\ uop = NoSync
    /\ wpc = "idle"
    /\ wop = NoWork
    /\ sync_calls = 0
    /\ sync_log = NoSyncLog
    /\ InitNoRequests
    /\ certificates = <<>>
    /\ cpc = "idle"
    /\ cop = NoCycle
    /\ tls_secrets = [r \in ResIds |-> 0]
    /\ schedule = <<>>
    /\ spc = "idle"
    /\ sop = NoScan
    /\ clock = Midnight
    /\ collector = NoCollector
    /\ risk = NoRisk
    /\ loops = NoLoop
    /\ pki = NoPki
    /\ \E n \in 1..MaxBatchSize : worker = [NoWorker EXCEPT !.batch_size = n]
    /\ now = 0

NextWorker ==
    \/ SyncPendingUsers
    \/ WorkerSyncUser
    \/ SyncUserConnector
    \/ SyncUserCall
    \/ SyncUserMarkSynced
    \/ HandleSyncError
    \/ WorkerNextUser
    \/ WorkerBreak
    \/ HandleShutdown

SpecWorker == InitWorker /\ [][NextWorker]_vars

-----------------------------------------------------------------------------
(* The UserSyncWorker running for ever over rows that fail or succeed for good *)

\* The rows of the initial store that the external system rejects on every
\* attempt and that the select of sync_pending_users returns.
Blockers(rows, fate) == {u \in UserIds : fate[u] = "fails" /\ Eligible(rows[u])}

InitCycles ==
    /\ resources = [r \in ResIds |-> ExternalResource("db-postgresql", "partial", TRUE)]
    /\ provisioning_jobs = <<>>
    /\ cluster = [ns \in Namespaces |-> NoNamespace]
    /\ pc = "idle"
    /\ op = NoOp
    /\ \E status \in [UserIds -> SyncStatuses], newest_first \in BOOLEAN,
          fate \in [UserIds -> {"fails", "succeeds"}], n \in 1..MaxBatchSize :
         /\ resource_users =
              [u \in UserIds |->
                 StoredResourceUser(ResourceOfUser(u), status[u],
                                    IF newest_first THEN NumUsers + 1 - u ELSE u)]
         /\ remote_users = {u \in UserIds : status[u] = "synced"}
         /\ worker = [NoWorker EXCEPT !.batch_size = n, !.fate = fate]
    /\ upc = "idle"
    /\ uop = NoSync
    /\ wpc = "idle"
    /\ wop = NoWork
    /\ sync_calls = 0
    /\ sync_log = NoSyncLog
    /\ InitNoRequests
    /\ certificates = <<>>
    /\ cpc = "idle"
    /\ cop = NoCycle
    /\ tls_secrets = [r \in ResIds |-> 0]
    /\ schedule = <<>>
    /\ spc = "idle"
    /\ sop = NoScan
    /\ clock = Midnight
    /\ collector = NoCollector
    /\ risk = NoRisk
    /\ loops = NoLoop
    /\ pki = NoPki
    /\ now = 0

\* run() with no signal delivered: cycle, sleep, cycle, ...
NextCycles ==
    \/ SyncPendingUsers
    \/ WorkerSyncUser
    \/ SyncUserConnector
    \/ SyncUserCall
    \/ SyncUserMarkSynced
    \/ HandleSyncError
    \/ WorkerNextUser
    \/ WorkerSleep

SpecCycles == InitCycles /\ [][NextCycles]_vars

\* The worker's thread keeps running.
SpecCyclesFair == SpecCycles /\ WF_vars(NextCycles)

\* A pending row for which the connector's calls succeed.
PendingAndHealthy(u) ==
    /\ resource_users[u].sync_status = "pending"
    /\ worker.fate[u] = "succeeds"

\* C34: under fair scheduling of the worker's cycles every pending row whose
\* connector operations succeed is eventually synced, however many older rows
\* fail on every attempt.
PendingRowEventuallySynced ==
    \A u \in UserIds :
        PendingAndHealthy(u) ~> (resource_users[u].sync_status = "synced")

\* The same when fewer than batch_size of the selected rows fail on every
\* attempt: there it holds.
PendingRowSyncedWithRoomInBatch ==
    (Cardinality(Blockers(resource_users, worker.fate)) < worker.batch_size)
        => PendingRowEventuallySynced

\* A cycle has returned the older, failing rows to error and has not selected
\* the pending row behind them.
PendingRowStarved ==
    /\ worker.cycles > 0
    /\ CycleOver
    /\ Len(worker.processed) = worker.batch_size
    /\ \A i \in 1..Len(worker.processed) :
         /\ worker.fate[worker.processed[i].user] = "fails"
         /\ resource_users[worker.processed[i].user].sync_status = "error"
    /\ \E u \in UserIds :
         /\ PendingAndHealthy(u)
         /\ \A i \in 1..Len(worker.pending_users) : worker.pending_users[i] # u
    /\ resource_users = [u \in UserIds |->
          IF worker.before[u].sync_status = "pending" /\ worker.fate[u] = "fails"
          THEN [worker.before[u] EXCEPT !.sync_status = "error",
                   !.sync_error = resource_users[u].sync_error]
          ELSE worker.before[u]]

-----------------------------------------------------------------------------
(* A cycle of the UserSyncWorker and update_resource_users on the same rows *)

InitRace ==
    /\ resources = [r \in ResIds |-> ExternalResource("db-postgresql", "partial", TRUE)]
    /\ provisioning_jobs = <<>>
    /\ cluster = [ns \in Namespaces |-> NoNamespace]
    /\ pc = "idle"
    /\ op = NoOp
    /\ \E status \in [UserIds -> SyncStatuses], n \in 1..MaxBatchSize :
         /\ resource_users =
              [u \in UserIds |-> StoredResourceUser(ResourceOfUser(u), status[u], u)]
         /\ remote_users = {u \in UserIds : status[u] = "synced"}
         /\ worker = [NoWorker EXCEPT !.batch_size = n]
    /\ upc = "idle"
    /\ uop = NoSync
    /\ wpc = "idle"
    /\ wop = NoWork
    /\ sync_calls = 0
    /\ sync_log = NoSyncLog
    /\ InitNoRequests
    /\ certificates = <<>>
    /\ cpc = "idle"
    /\ cop = NoCycle
    /\ tls_secrets = [r \in ResIds |-> 0]
    /\ schedule = <<>>
    /\ spc = "idle"
    /\ sop = NoScan
    /\ clock = Midnight
    /\ collector = NoCollector
    /\ risk = NoRisk
    /\ loops = NoLoop
    /\ pki = NoPki
    /\ now = 0

NextRace ==
    \/ SyncUsers
    \/ SyncPendingUsers
    \/ WorkerSyncUser
    \/ SyncUserConnector
    \/ SyncUserCall
    \/ SyncUserMarkSynced
    \/ HandleSyncError
    \/ WorkerNextUser

SpecRace == InitRace /\ [][NextRace]_vars

\* The step in which sync_user calls connector.create_user.
WorkerCallsCreateUser ==
    /\ wpc = "sync_user_call"
    /\ wpc' # "sync_user_call"
    /\ ~wop.user_exists

\* The step in which update_resource_users calls connector.create_user.
RequestCallsCreateUser ==
    /\ upc = "sync_users_connector"
    /\ upc' # "sync_users_connector"
    /\ SyncUsersCallsConnector(uop.snapshot[uop.idx])

\* create_user is called only for a user the external resource does not have.
CreateUserOnlyForAbsentUser ==
    /\ WorkerCallsCreateUser => wop.user \notin remote_users
    /\ RequestCallsCreateUser => uop.rows[uop.idx] \notin remote_users

\* Neither update_resource_users nor a cycle of the worker is in flight.
NoSyncInFlight ==
    /\ upc \in {"idle", "done"}
    /\ CycleOver
    /\ wpc \in {"idle", "done"}

\* The sync_status of row u is that of the last connector call made for it.
StatusReflectsLastCall(u) ==
    /\ resource_users[u].sync_status = "synced" => sync_log.last_call[u] # "raised"
    /\ resource_users[u].sync_status = "error" => sync_log.last_call[u] # "returned"

FinalStatusReflectsLastCall ==
    NoSyncInFlight =>
        \A u \in UserIds : sync_log.last_call[u] # "none" => StatusReflectsLastCall(u)

\* C40: when a cycle of the worker and update_resource_users process the same
\* row concurrently, create_user is called at most once for a user that did
\* not exist, and the row's final sync_status is that of the last connector
\* call made for it.
InterleavingIsSafe ==
    /\ [][CreateUserOnlyForAbsentUser]_vars
    /\ []FinalStatusReflectsLastCall

\* When the two never are in flight together create_user is called only for an
\* absent user.
SerialCreateUserOnlyForAbsentUser ==
    [][~sync_log'.overlapped => CreateUserOnlyForAbsentUser]_vars

\* Both callers have created the same user.
UserCreatedTwice ==
    \E u \in UserIds :
        /\ sync_log.overlapped
        /\ \E i \in 1..Len(uop.events[u]) : uop.events[u][i] = "create_user"
        /\ wop.user = u
        /\ \E i \in 1..Len(wop.events) : wop.events[i] = "create_user"

\* Both callers have called the connector for the row, the last call returned,
\* and the row is left in error by the caller whose call had raised.
ErrorAfterLastCallReturned ==
    \E u \in UserIds :
        /\ NoSyncInFlight
        /\ sync_log.overlapped
        /\ uop.events[u] = <<"syncing", "create_user_failed", "error">>
        /\ wop.user = u
        /\ wop.events = <<"syncing", "create_user", "synced">>
        /\ sync_log.last_call[u] = "returned"
        /\ resource_users[u].sync_status = "error"

-----------------------------------------------------------------------------
(* Properties of the user synchronisation *)

\* C9: in every reachable state, every resource_users row with sync_status
\* synced has last_synced_at set and no sync_error.
SyncedRowIsClean ==
    \A u \in UserIds :
        resource_users[u].sync_status = "synced"
            => /\ resource_users[u].last_synced_at # NULL
               /\ resource_users[u].sync_error = NULL

\* What update_resource_users may do to one row: mark it syncing, call
\* create_user or update_user, then mark it synced when the call succeeded and
\* error when it failed.
RowSyncRuns ==
    {<<"syncing", "create_user", "synced">>,
     <<"syncing", "update_user", "synced">>,
     <<"syncing", "create_user_failed", "error">>,
     <<"syncing", "update_user_failed", "error">>}

\* C10: when update_resource_users has gone through the rows of the resource,
\* every row, whatever its sync_status was, has been marked syncing, then had
\* create_user or update_user called for it, then been marked synced if the
\* call succeeded and error if it failed.
EveryRowGoesThroughConnector ==
    (upc = "done" /\ uop.result \in {"true", "false"})
        => \A i \in 1..Len(uop.rows) : uop.events[uop.rows[i]] \in RowSyncRuns

-----------------------------------------------------------------------------
(* ExternalOps requests on externally hosted resources *)

\* An externally hosted resource with its capability bits set alike, soft-deleted
\* or not.
ImportedResource(t, mode, caps, deleted) ==
    [ExternalResource(t, mode, caps) EXCEPT
        !.can_modify_config = caps, !.can_backup = caps,
        !.deleted_at = IF deleted THEN "2024-01-01" ELSE NULL]

\* The rows the store holds: a manageable resource, one without the capability
\* bits, one of lifecycle mode full, a soft-deleted one, and one of a type
\* CONNECTOR_MAP has no connector for.
ExternalOpsProfiles ==
    {ImportedResource("db-postgresql", "partial", TRUE, FALSE),
     ImportedResource("db-postgresql", "partial", FALSE, FALSE),
     ImportedResource("db-postgresql", "full", TRUE, FALSE),
     ImportedResource("db-postgresql", "monitor_only", TRUE, TRUE),
     ImportedResource("db-valkey", "partial", TRUE, FALSE)}

InitExternalOps ==
    /\ resources \in [ResIds -> ExternalOpsProfiles]
    /\ provisioning_jobs = <<>>
    /\ cluster = [ns \in Namespaces |-> NoNamespace]
    /\ pc = "idle"
    /\ op = NoOp
    /\ InitUsers
    /\ InitNoRequests
    /\ InitNoWorkers

NextExternal ==
    \/ ExtUpdateConfig
    \/ SyncUsers
    \/ TriggerBackup
    \/ RestoreBackup
    \/ CollectStats
    \/ \E r \in ResIds : TestConnection(r)
    \/ TestConnectionReturn
    \/ ReloadConfiguration
    \/ ExtCreateAuditLog

SpecExternal == InitExternalOps /\ [][NextExternal]_vars

-----------------------------------------------------------------------------
(* Properties of the ExternalOps requests *)

\* The ExternalOps request has returned or raised.
RequestFinished == eop.result # "none"

\* Since the request began the store is as it was: the resource row, and the
\* numbers of backup jobs, statistics rows and audit entries.
StoreAsBefore ==
    /\ resources[eop.resource_id] = eop.row_before
    /\ Len(backup_jobs) = eop.jobs_before
    /\ Len(resource_stats) = eop.stats_before
    /\ Len(audit_logs) = eop.audit_before

\* C11: every ExternalOps operation asked for a soft-deleted resource fails, and
\* it does so without building or calling a connector and without changing the
\* store; for update_resource_users, without touching a user row.
SoftDeletedResourceIsRefused ==
    /\ (RequestFinished /\ eop.row_before.deleted_at # NULL)
          => /\ eop.result = "raised"
             /\ ~eop.connector
             /\ eop.calls = <<>>
             /\ StoreAsBefore
    /\ (uop.result # "none" /\ resources[uop.resource_id].deleted_at # NULL)
          => /\ uop.result = "raised"
             /\ \A u \in UserIds : uop.events[u] = <<>>

\* The capability bit the operation requires is false on the row.
CapabilityMissing(row, kind) ==
    \/ kind = "update_config" /\ ~row.can_modify_config
    \/ kind \in {"trigger_backup", "restore_backup"} /\ ~row.can_backup

\* C12: when the lifecycle mode of the resource is neither partial nor
\* monitor_only, or the capability bit the operation requires is false, the
\* request calls no connector operation, inserts no backup job and leaves the
\* resource row and the user rows as they were.
GatedByLifecycleAndCapability ==
    /\ (/\ eop.kind # "none"
        /\ \/ eop.row_before.lifecycle_mode \notin {"partial", "monitor_only"}
           \/ CapabilityMissing(eop.row_before, eop.kind))
          => /\ eop.calls = <<>>
             /\ Len(backup_jobs) = eop.jobs_before
             /\ resources[eop.resource_id] = eop.row_before
    /\ (/\ uop.resource_id # 0
        /\ \/ resources[uop.resource_id].lifecycle_mode \notin {"partial", "monitor_only"}
           \/ ~resources[uop.resource_id].can_modify_users)
          => \A u \in UserIds : uop.events[u] = <<>>

\* The status histories a backup job may have.
BackupJobRuns ==
    {<<"pending", "running", "completed">>, <<"pending", "running", "failed">>}

\* The connector call of the request succeeded.
BackupCallSucceeded ==
    \E i \in 1..Len(eop.calls) : eop.calls[i] \in {"trigger_backup", "restore_backup"}

CompletedJobHasLocationAndSize ==
    \A j \in 1..Len(backup_jobs) :
        backup_jobs[j].status = "completed"
            => /\ backup_jobs[j].backup_location \notin {NULL, ""}
               /\ backup_jobs[j].backup_size_bytes # NULL_SIZE
               /\ backup_jobs[j].backup_size_bytes >= 0

-----------------------------------------------------------------------------
(* The StatsCollector on its own *)

InitCollector ==
    /\ resources \in [ResIds -> ExternalOpsProfiles]
    /\ provisioning_jobs = <<>>
    /\ cluster = [ns \in Namespaces |-> NoNamespace]
    /\ pc = "idle"
    /\ op = NoOp
    /\ InitUsers
    /\ InitNoRequests
    /\ InitNoWorkers

SpecCollector == InitCollector /\ [][NextCollector]_vars

\* C15: at any time at most one thread of the StatsCollector is inside a
\* collection cycle, however start() and stop() are called.
OneCycleAtATime ==
    Cardinality({i \in 1..Len(collector.threads) :
                    collector.threads[i] = "cycle"}) <= 1

-----------------------------------------------------------------------------
(* The CertRotationWorker on its own *)

\* The rows the store holds when the StatsCollector runs: a resource provisioned
\* in the cluster, one that is soft-deleted, and externally hosted ones of
\* lifecycle mode partial, full and monitor_only.
StatsProfiles ==
    {BoundResource(1),
     [BoundResource(1) EXCEPT !.deleted_at = "2024-01-01"],
     ImportedResource("db-postgresql", "partial", TRUE, FALSE),
     ImportedResource("db-postgresql", "full", TRUE, FALSE),
     ImportedResource("db-postgresql", "monitor_only", TRUE, FALSE)}

InitStats ==
    /\ resources \in [ResIds -> StatsProfiles]
    /\ provisioning_jobs = <<>>
    /\ cluster = [ns \in Namespaces |-> NoNamespace]
    /\ pc = "idle"
    /\ op = NoOp
    /\ InitUsers
    /\ InitNoRequests
    /\ InitNoWorkers

SpecStats == InitStats /\ [][NextCollector]_vars

\* The rows a step appends to resource_stats for the resource r.
NewStatsOf(r) ==
    {k \in (Len(resource_stats) + 1)..Len(resource_stats') :
        resource_stats'[k].resource_id = r}

\* C27: a cycle of the StatsCollector appends exactly one row for every
\* resource that is active, of lifecycle mode full or partial and not
\* soft-deleted, be it bound to the cluster or external, and leaves every
\* Resource row as it was.
CycleAppendsOneRowPerActiveResource ==
    [][collector'.cycles # collector.cycles =>
          /\ resources' = resources
          /\ \A r \in ResIds :
                CollectorSelects(resources[r]) =>
                    Cardinality(NewStatsOf(r)) = 1]_vars

\* What holds of a cycle: no Resource row changes, a resource gets at most one
\* row, only a selected one gets a row, and a resource bound to the cluster
\* whose collection met no failure gets exactly one.
CycleAppendsAtMostOneRow ==
    [][collector'.cycles # collector.cycles =>
          /\ resources' = resources
          /\ \A r \in ResIds :
                /\ Cardinality(NewStatsOf(r)) <= 1
                /\ NewStatsOf(r) # {} => CollectorSelects(resources[r])
                /\ (/\ CollectorSelects(resources[r])
                    /\ IsK8s(resources[r])
                    /\ ~collector'.failed[r])
                       => Cardinality(NewStatsOf(r)) = 1]_vars

\* An external resource was selected by a cycle in which nothing failed, and
\* the cycle inserted no row for it.
ExternalResourceSelectedWithoutRow ==
    \E r \in ResIds :
        /\ collector.cycles > 0
        /\ \E k \in 1..Len(collector.selected) : collector.selected[k] = r
        /\ ~IsK8s(resources[r])
        /\ ~collector.failed[r]
        /\ collector.outcome[r] = "no_metrics"

\* C28: a failure while one resource is collected, be it of the fetch of the
\* metrics, of the connector or of the insert of the row, adds exactly one to
\* the error counter for that resource, and a resource collected without
\* failure adds nothing.
FailureCountedOnce ==
    collector.cycles > 0 =>
        \A r \in ResIds :
            collector.errors[r] - collector.errors_before[r] =
                IF collector.failed[r] THEN 1 ELSE 0

\* What holds of the counter: only a failed insert is counted, once.
OnlyRaisedFailureCounted ==
    collector.cycles > 0 =>
        \A r \in ResIds :
            collector.errors[r] - collector.errors_before[r] =
                IF collector.outcome[r] = "raised" THEN 1 ELSE 0

\* A failure is absorbed: the thread goes on to wait for the next cycle, and
\* the other selected resources have their outcome.
FailureIsAbsorbed ==
    [][collector'.cycles # collector.cycles =>
          /\ \E i \in 1..Len(collector'.threads) : collector'.threads[i] = "wait"
          /\ \A r \in ResIds :
                CollectorSelects(resources[r]) => collector'.outcome[r] # "none"]_vars

\* The fetch of the metrics of a selected resource failed and the counter did
\* not move.
FetchFailureNotCounted ==
    \E r \in ResIds :
        /\ collector.cycles > 0
        /\ collector.failed[r]
        /\ collector.outcome[r] = "no_metrics"
        /\ collector.errors[r] = collector.errors_before[r]

\* The credentials column of every Resource row is empty or a ciphertext token.
StoreHoldsCiphertext ==
    \A r \in ResIds : resources[r].credentials \in {NULL, Encrypt("plaintext")}

\* C29: the store holds Resource.credentials as ciphertext only, and a
\* connector built for a resource by ExternalOps or by the UserSyncWorker has
\* received the decrypted text of the stored credentials.
ConnectorsReceiveDecryptedCredentials ==
    /\ StoreHoldsCiphertext
    /\ eop.connector =>
          eop.credentials = Decrypt(resources[eop.resource_id].credentials)
    /\ wop.credentials # NULL =>
          wop.credentials =
              Decrypt(resources[resource_users[wop.user].resource_id].credentials)

\* What the connectors receive: the stored token itself.
ConnectorsReceiveStoredToken ==
    /\ eop.connector => eop.credentials = resources[eop.resource_id].credentials
    /\ wop.credentials # NULL =>
          wop.credentials = resources[resource_users[wop.user].resource_id].credentials

\* ExternalOps has built a connector for a resource with stored credentials.
ConnectorBuiltFromStoredCredentials ==
    /\ eop.connector
    /\ resources[eop.resource_id].credentials # NULL

\* The rows the store holds when the worker starts, on day 0: certificates that
\* are due, bound to a cluster resource or to none, with and without auto_renew,
\* soft-deleted, not yet within their threshold, beyond the 30 days, and one
\* whose CA row is gone.
CertProfiles ==
    {CertificateRow(1, 5, 30, TRUE, FALSE, TRUE),
     CertificateRow(0, 5, 30, TRUE, FALSE, TRUE),
     CertificateRow(1, 5, 30, FALSE, FALSE, TRUE),
     CertificateRow(1, 20, 30, FALSE, FALSE, TRUE),
     CertificateRow(1, 5, 30, TRUE, TRUE, TRUE),
     CertificateRow(1, 25, 14, TRUE, FALSE, TRUE),
     CertificateRow(1, 40, 60, TRUE, FALSE, TRUE),
     CertificateRow(1, 5, 30, TRUE, FALSE, FALSE)}

InitCerts ==
    /\ resources = [r \in ResIds |-> BoundResource(r)]
    /\ provisioning_jobs = <<>>
    /\ cluster = [ns \in Namespaces |-> NoNamespace]
    /\ pc = "idle"
    /\ op = NoOp
    /\ InitUsers
    /\ InitNoRequests
    /\ certificates \in [CertIds -> CertProfiles]
    /\ cpc = "idle"
    /\ cop = NoCycle
    /\ tls_secrets = [r \in ResIds |-> 1]
    /\ schedule = <<>>
    /\ spc = "idle"
    /\ sop = NoScan
    /\ clock = Midnight
    /\ collector = NoCollector
    /\ risk = NoRisk
    /\ loops = NoLoop
    /\ pki = NoPki
    /\ worker = NoWorker
    /\ now = 0

SpecCerts == InitCerts /\ [][NextCerts]_vars

-----------------------------------------------------------------------------
(* Properties of the CertRotationWorker *)

\* The cycle has written a certificate_renewed audit entry for certificate c.
RenewalAudited(c) ==
    \E i \in (cop.audit_before + 1)..Len(audit_logs) :
        /\ audit_logs[i].cert_id = c
        /\ audit_logs[i].action = "certificate_renewed"

\* C16: when the update of the cluster TLS Secret fails after the CA has issued
\* the new certificate, the row of the certificate keeps its certificate,
\* private key and valid_until, and no certificate_renewed audit entry is
\* written for it.
SecretFailureLeavesRowUnchanged ==
    \A c \in CertIds :
        cop.outcome[c] = "k8s_error"
            => /\ certificates[c] = cop.before[c]
               /\ ~RenewalAudited(c)

\* The Secret update of a cluster-bound certificate has failed in this cycle.
SecretUpdateFailed ==
    \E c \in CertIds :
        /\ cop.outcome[c] = "k8s_error"
        /\ cop.before[c].resource_id # 0
        /\ cop.notified[c] = <<"renewal_failed">>

\* What _renew_certificate_with_recovery leaves as the outcome of a renewal
\* it has attempted.
RenewalOutcomes ==
    {"renewed", "no_certificate", "no_ca", "ca_error", "k8s_error", "store_error"}

\* No other certificate is kept in the Secret of the resource of c.
SoleCertificateOfResource(c) ==
    \A d \in CertIds \ {c} :
        certificates[d].resource_id # certificates[c].resource_id

\* The Secret of the resource of c holds the issue the row of c records.
SecretHoldsRowCertificate(c) ==
    tls_secrets[certificates[c].resource_id] = certificates[c].certificate

\* C39: after every renewal attempt on a cluster-bound certificate, whether it
\* succeeded or failed at the CA, at the Secret update or at the write to the
\* store, the certificate in the cluster TLS Secret and the one in the row are
\* the same.
SecretAndRowAgreeAfterRenewal ==
    \A c \in CertIds :
        (/\ cop.outcome[c] \in RenewalOutcomes
         /\ ClusterBound(certificates[c])
         /\ SoleCertificateOfResource(c))
            => SecretHoldsRowCertificate(c)

\* The same of the first cycle's attempts that did not fail at the write to
\* the store: there it holds.
SecretAndRowAgreeUnlessWriteFailed ==
    \A c \in CertIds :
        (/\ cop.cycles = 1
         /\ cop.outcome[c] \in RenewalOutcomes \ {"store_error"}
         /\ ClusterBound(certificates[c])
         /\ SoleCertificateOfResource(c))
            => SecretHoldsRowCertificate(c)

\* Step 4 has failed after step 2 applied the Secret: the Secret holds the new
\* issue, the row the old one.
SecretAheadOfRow ==
    \E c \in CertIds :
        /\ cop.outcome[c] = "store_error"
        /\ ClusterBound(certificates[c])
        /\ SoleCertificateOfResource(c)
        /\ certificates[c] = cop.before[c]
        /\ tls_secrets[certificates[c].resource_id] = certificates[c].certificate + 1

\* C17: a failure while one certificate is renewed ends the renewal of that
\* certificate only: when the cycle is over, every certificate it had selected
\* has been processed.
FailureAbortsOnlyThatCertificate ==
    cpc = "cycle_done"
        => \A i \in 1..Len(cop.expiring) : cop.outcome[cop.expiring[i]] # "none"

\* The row was due for renewal when the cycle began.
WasEligible(row) ==
    /\ row.deleted_at = NULL
    /\ row.valid_until <= now + 30
    /\ row.valid_until - now <= row.renewal_threshold_days
    /\ row.auto_renew

-----------------------------------------------------------------------------
(* The BackupScheduler on its own *)

\* The entries schedule_backup has stored on day 0.
ScheduleProfiles ==
    {ScheduledBackup(s, TRUE) : s \in BackupSchedules}
        \cup {ScheduledBackup("daily", FALSE)}

InitBackups ==
    /\ resources \in [ResIds -> {ImportedResource("db-postgresql", "partial", TRUE, FALSE)}]
    /\ provisioning_jobs = <<>>
    /\ cluster = [ns \in Namespaces |-> NoNamespace]
    /\ pc = "idle"
    /\ op = NoOp
    /\ InitUsers
    /\ InitNoRequests
    /\ certificates = <<>>
    /\ cpc = "idle"
    /\ cop = NoCycle
    /\ tls_secrets = [r \in ResIds |-> 0]
    /\ now = 0
    /\ schedule \in [ResIds -> ScheduleProfiles]
    /\ spc = "idle"
    /\ sop = NoScan
    /\ clock = Midnight
    /\ collector = NoCollector
    /\ risk = NoRisk
    /\ loops = NoLoop
    /\ pki = NoPki
    /\ worker = NoWorker

SpecBackups == InitBackups /\ [][NextBackups]_vars

-----------------------------------------------------------------------------
(* Properties of the BackupScheduler *)

\* The days between two runs of a schedule.
Period(s) ==
    IF s = "weekly" THEN 7 ELSE IF s = "monthly" THEN 30 ELSE 1

\* The pass has dealt with the entry of resource r.
Scanned(r) == sop.result[r] # "none"

\* C19: a pass of the scheduler runs an entry exactly when it is enabled and its
\* next run time has come; after a successful run the last run time is now and
\* the next run time is now plus the period of the schedule (1 day for daily
\* and custom, 7 for weekly, 30 for monthly), and an entry that has run
\* successfully is not run again before that period has passed.
RunsWhenDueAndReschedules ==
    \A r \in ResIds :
        Scanned(r) =>
            LET was == sop.before[r]
                t == sop.current_time
            IN  /\ sop.ran[r] = (was.enabled /\ t >= was.next_backup_time)
                /\ sop.result[r] = "completed"
                      => /\ schedule[r].last_backup_time = t
                         /\ schedule[r].next_backup_time = t + Period(was.schedule)
                /\ (sop.ran[r] /\ was.last_backup_time # NEVER)
                      => t >= was.last_backup_time + Period(was.schedule)

\* A weekly entry that ran successfully before has run successfully again.
WeeklyBackupRanAgain ==
    \E r \in ResIds :
        /\ Scanned(r)
        /\ sop.before[r].schedule = "weekly"
        /\ sop.before[r].last_backup_time # NEVER
        /\ sop.result[r] = "completed"

\* C20: a failed scheduled backup increments retry_count; after three failures
\* in a row the scheduler gives up on the entry: it creates and uploads no
\* further backup for it and retry_count grows no more.
GivesUpAfterThreeFailures ==
    \A r \in ResIds :
        /\ schedule[r].retry_count <= 3
        /\ (Scanned(r) /\ sop.created[r]) => sop.before[r].retry_count < 3
        /\ (Scanned(r) /\ sop.result[r] \in {"backup_failed", "upload_failed"})
              => schedule[r].retry_count = sop.before[r].retry_count + 1


\* C21: for every backup a pass of the scheduler has executed for a due entry
\* there is a row in db.backup_jobs for that resource, completed when the backup
\* succeeded and failed when it did not.
ScheduledBackupIsRecorded ==
    \A r \in ResIds :
        (Scanned(r) /\ sop.created[r])
            => \E j \in 1..Len(backup_jobs) :
                  /\ backup_jobs[j].resource_id = r
                  /\ backup_jobs[j].status =
                        IF sop.result[r] = "completed" THEN "completed" ELSE "failed"


-----------------------------------------------------------------------------
(* The BackupScheduler loop against the clock *)

\* The worker has been started at some minute of hour 01.
InitCleanup ==
    /\ resources \in [ResIds -> {ImportedResource("db-postgresql", "partial", TRUE, FALSE)}]
    /\ provisioning_jobs = <<>>
    /\ cluster = [ns \in Namespaces |-> NoNamespace]
    /\ pc = "idle"
    /\ op = NoOp
    /\ InitUsers
    /\ InitNoRequests
    /\ certificates = <<>>
    /\ cpc = "idle"
    /\ cop = NoCycle
    /\ tls_secrets = [r \in ResIds |-> 0]
    /\ now = 0
    /\ schedule \in [ResIds -> {ScheduledBackup("daily", TRUE)}]
    /\ spc = "idle"
    /\ sop = NoScan
    /\ clock \in {[Midnight EXCEPT !.minute = m] : m \in 60..119}
    /\ collector = NoCollector
    /\ risk = NoRisk
    /\ loops = NoLoop
    /\ pki = NoPki
    /\ worker = NoWorker

SpecCleanup == InitCleanup /\ [][NextCleanup]_vars

\* C22: on a day the worker runs through, the window 02:00-02:04 sees exactly
\* one cleanup run: once the loop is past the window, cleanup_old_backups() has
\* been called once, never zero times and never more than once.
OneCleanupInTheWindow ==
    clock.minute >= 125 => clock.cleanups = 1


-----------------------------------------------------------------------------
(* The operations that write audit entries: ExternalOps requests,
   revoke_certificate and the CertRotationWorker, side by side *)

\* Certificates that are due, of a cluster resource and of none.
DueCertificates ==
    {CertificateRow(1, 5, 30, TRUE, FALSE, TRUE),
     CertificateRow(0, 5, 30, TRUE, FALSE, TRUE)}

\* The store holds a manageable external resource and revoked certificates, and
\* the worker has made its cycles; or it holds cluster-bound resources and
\* certificates that are due, and one more request is made.
InitAudit ==
    /\ \/ /\ resources = [r \in ResIds |->
                            ImportedResource("db-postgresql", "partial", TRUE, FALSE)]
          /\ certificates = [c \in CertIds |->
                               CertificateRow(0, 400, 30, TRUE, TRUE, TRUE)]
          /\ tls_secrets = [r \in ResIds |-> 0]
          /\ cpc = "cycle_done"
          /\ cop = [NoCycle EXCEPT !.cycles = MaxCycles]
          /\ sync_calls = 0
       \/ /\ resources = [r \in ResIds |-> BoundResource(r)]
          /\ certificates \in [CertIds -> DueCertificates]
          /\ tls_secrets = [r \in ResIds |-> 1]
          /\ cpc = "idle"
          /\ cop = NoCycle
          /\ sync_calls = MaxSyncCalls - 1
    /\ provisioning_jobs = <<>>
    /\ cluster = [ns \in Namespaces |-> NoNamespace]
    /\ pc = "idle"
    /\ op = NoOp
    /\ resource_users = [u \in UserIds |-> NewResourceUser(ResourceOfUser(u))]
    /\ remote_users = {}
    /\ upc = "idle"
    /\ uop = NoSync
    /\ wpc = "idle"
    /\ wop = NoWork
    /\ sync_log = NoSyncLog
    /\ InitNoRequests
    /\ schedule = <<>>
    /\ spc = "idle"
    /\ sop = NoScan
    /\ clock = Midnight
    /\ collector = NoCollector
    /\ risk = NoRisk
    /\ loops = NoLoop
    /\ pki = NoPki
    /\ worker = NoWorker
    /\ now = 0

NextAudit ==
    \/ NextExternal
    \/ RevokeCertificate
    \/ NextCerts

SpecAudit == InitAudit /\ [][NextAudit]_vars

-----------------------------------------------------------------------------
(* The risk evaluators alone, over metrics maps with any subset of the keys *)

MetricsMaps ==
    [disk_usage_percent : DiskUsages, memory_usage_percent : MemoryUsages,
     memory_percent : MemoryPercents, connections : ConnectionCounts,
     temp_files : TempFileSizes, replication_lag_seconds : ReplicationLags,
     cpu_percent : CpuPercents]

InitRisk ==
    /\ resources = [r \in ResIds |-> ExternalResource("db-postgresql", "partial", TRUE)]
    /\ provisioning_jobs = <<>>
    /\ cluster = [ns \in Namespaces |-> NoNamespace]
    /\ pc = "idle"
    /\ op = NoOp
    /\ InitUsers
    /\ InitNoRequests
    /\ certificates = <<>>
    /\ cpc = "idle"
    /\ cop = NoCycle
    /\ tls_secrets = [r \in ResIds |-> 0]
    /\ schedule = <<>>
    /\ spc = "idle"
    /\ sop = NoScan
    /\ clock = Midnight
    /\ collector = NoCollector
    /\ worker = NoWorker
    /\ \E metrics \in MetricsMaps : risk = [NoRisk EXCEPT !.metrics = metrics]
    /\ loops = NoLoop
    /\ pki = NoPki
    /\ now = 0

NextRisk ==
    \/ EvaluateRisk
    \/ CollectorEvaluateRisk
    \/ Observe

SpecRisk == InitRisk /\ [][NextRisk]_vars

-----------------------------------------------------------------------------
(* Properties of the risk evaluators *)

\* The levels of the rules of the evaluator's table that a metrics map triggers.
TriggeredLevels(m) ==
    {"low"}
    \cup (IF m.disk_usage_percent > 95 THEN {"critical"} ELSE {})
    \cup (IF m.disk_usage_percent > 85 THEN {"high"} ELSE {})
    \cup (IF m.memory_usage_percent > 90 \/ m.memory_percent > 90
          THEN {"high"} ELSE {})
    \cup (IF m.memory_percent > 85 /\ m.memory_percent <= 90
          THEN {"medium"} ELSE {})
    \cup (IF Saturated(m.connections) THEN {"medium"} ELSE {})
    \cup (IF m.temp_files > GIB THEN {"medium"} ELSE {})
    \cup (IF m.replication_lag_seconds > 3600 THEN {"medium"} ELSE {})
    \cup (IF m.cpu_percent > 85 THEN {"medium"} ELSE {})

\* The maximum severity among them.
MaximumSeverity(m) ==
    CHOOSE level \in TriggeredLevels(m) :
        \A other \in TriggeredLevels(m) : Severity(other) <= Severity(level)

\* C25: the level either evaluator returns for a metrics map is the maximum
\* severity over the rules of the table the map triggers, and is not lower
\* than the level it returned before one observation was added or worsened.
RiskLevelIsMaximumSeverity ==
    /\ risk.level # NULL
           => /\ risk.level = MaximumSeverity(risk.metrics)
              /\ risk.prior_level # NULL
                     => Severity(risk.prior_level) <= Severity(risk.level)
    /\ risk.collector_level # NULL
           => /\ risk.collector_level = MaximumSeverity(risk.metrics)
              /\ risk.prior_collector_level # NULL
                     => Severity(risk.prior_collector_level)
                            <= Severity(risk.collector_level)

\* C33: for every metrics map the level ExternalOps computes and the level the
\* StatsCollector computes are the same.
EvaluatorsAgree ==
    (risk.level # NULL /\ risk.collector_level # NULL)
        => risk.level = risk.collector_level

\* The two evaluators share the rules on disk usage and on the saturation of
\* the connections: they agree on a map with no other observation.
OnlySharedKeys(m) ==
    /\ m.memory_usage_percent = ABSENT
    /\ m.memory_percent = ABSENT
    /\ m.temp_files = ABSENT
    /\ m.replication_lag_seconds = ABSENT
    /\ m.cpu_percent = ABSENT

EvaluatorsAgreeOnSharedKeys ==
    (risk.level # NULL /\ risk.collector_level # NULL
        /\ OnlySharedKeys(risk.metrics))
        => risk.level = risk.collector_level

\* Both evaluators have looked at a map whose only observation is the CPU, and
\* they differ.
EvaluatorsDifferOnCpu ==
    /\ risk.metrics = [NoMetrics EXCEPT !.cpu_percent = 90]
    /\ risk.level = "low"
    /\ risk.collector_level = "medium"

-----------------------------------------------------------------------------
(* Properties of the UserSyncWorker cycle *)

\* The rows the cycle in flight, or the last one, selected.
SelectedUsers == {worker.pending_users[i] : i \in 1..Len(worker.pending_users)}

\* The row was pending or error when the cycle made its select.
WasPendingOrError(u) == worker.before[u].sync_status \in {"pending", "error"}

\* C23: in every cycle of the UserSyncWorker the rows selected were pending or
\* error at the select, they are at most batch_size, no eligible row left out
\* was created before a selected one, the rows sync_user is called on are the
\* selected ones in that order, and no other row is written.
SelectsEarliestEligibleRows ==
    worker.cycles > 0 =>
        /\ \A u \in SelectedUsers : WasPendingOrError(u)
        /\ Len(worker.pending_users) <= worker.batch_size
        /\ Cardinality(SelectedUsers) = Len(worker.pending_users)
        /\ \A u \in SelectedUsers : \A v \in UserIds \ SelectedUsers :
             WasPendingOrError(v)
                 => worker.before[u].created_at <= worker.before[v].created_at
        /\ Len(worker.processed) <= Len(worker.pending_users)
        /\ \A i \in 1..Len(worker.processed) :
             worker.processed[i].user = worker.pending_users[i]
        /\ wpc # "idle" => wop.user \in SelectedUsers
        /\ \A v \in UserIds \ SelectedUsers : resource_users[v] = worker.before[v]

\* A cycle with batch_size 1 found two eligible rows and has processed the one
\* created first, which is not the one with the smaller id.
OlderRowProcessedFirst ==
    /\ worker.cycles > 0
    /\ CycleOver
    /\ worker.batch_size = 1
    /\ \A u \in UserIds : WasPendingOrError(u)
    /\ Len(worker.processed) = 1
    /\ worker.processed[1].user = 2
    /\ worker.before[2].created_at < worker.before[1].created_at


\* The connector calls sync_user made for a processed row.
RECURSIVE CallsIn(_)
CallsIn(events) ==
    IF events = <<>> THEN <<>>
    ELSE IF Head(events) \in {"create_user", "update_user",
                              "create_user_failed", "update_user_failed"}
         THEN <<Head(events)>> \o CallsIn(Tail(events))
         ELSE CallsIn(Tail(events))

-----------------------------------------------------------------------------
(* Properties of the audit entries *)

\* The store but for db.audit_logs.
nonAuditStore ==
    <<resources, provisioning_jobs, backup_jobs, resource_stats, resource_users,
      certificates, tls_secrets>>

\* The operation whose audit entry is about to be attempted has made its own
\* write to the store.
OwnWriteIsMade ==
    /\ upc = "create_audit_log" =>
         CASE eop.kind = "update_config" ->
                \A k \in DOMAIN eop.config :
                    /\ k \in DOMAIN resources[eop.resource_id].config
                    /\ resources[eop.resource_id].config[k] = eop.config[k]
           [] eop.kind \in {"trigger_backup", "restore_backup"} ->
                backup_jobs[eop.job_id].status \in {"completed", "failed"}
           [] eop.kind = "collect_stats" ->
                /\ Len(resource_stats) = eop.stats_before + 1
                /\ resource_stats[Len(resource_stats)].risk_level = eop.risk_level
           [] OTHER -> eop.kind = "reload_configuration"
    /\ upc = "revoke_certificate_audit" =>
         certificates[eop.cert_id].deleted_at # NULL
    /\ cpc = "cert_audit" =>
         /\ certificates[CurrentCert].certificate = cop.issued
         /\ certificates[CurrentCert].valid_until = cop.issued_until

\* C30: an audit entry is attempted only after the operation's own write to the
\* store, and the step that attempts it, whether the insert succeeds or fails,
\* leaves the rest of the store as it is and ends the operation the same way:
\* an ExternalOps request or revoke_certificate returns, or raises the error it
\* already had; update_resource_users returns its count's verdict; the
\* CertRotationWorker counts the certificate as renewed.
AuditFailureChangesNoOutcome ==
    /\ []OwnWriteIsMade
    /\ [][/\ (upc \in {"create_audit_log", "revoke_certificate_audit"}
                 /\ upc' # upc)
             => /\ UNCHANGED nonAuditStore
                /\ eop'.error = eop.error
                /\ eop'.result = IF eop.error = NULL THEN "returned" ELSE "raised"
          /\ (upc = "sync_users_audit" /\ upc' # upc)
             => /\ UNCHANGED nonAuditStore
                /\ uop'.result = IF uop.sync_errors = 0 THEN "true" ELSE "false"
          /\ (cpc = "cert_audit" /\ cpc' # cpc)
             => /\ UNCHANGED nonAuditStore
                /\ cop'.outcome[CurrentCert] = "renewed"
                /\ cop'.aborted = cop.aborted]_vars

\* A backup has completed and trigger_backup has returned though its audit
\* entry could not be written.
BackupReturnedWithoutAuditEntry ==
    /\ eop.kind = "trigger_backup"
    /\ eop.result = "returned"
    /\ backup_jobs[eop.job_id].status = "completed"
    /\ Len(audit_logs) = eop.audit_before


-----------------------------------------------------------------------------
(* Properties of ExternalOpsController.collect_resource_stats *)

\* The audit entries the request in flight, or the last one, has written.
AuditEntriesOfRequest ==
    {i \in (eop.audit_before + 1)..Len(audit_logs) :
        /\ audit_logs[i].action = "collect_stats"
        /\ audit_logs[i].resource_id = eop.resource_id}

====
